---- MODULE Spec2Model ----
(***************************************************************************)
(* Telegram/MAX bridge, route-based variant: the route matcher, the        *)
(* delay queue with its single worker (processQueue) and the media-group   *)
(* batch buffer (collectMediaGroup).                                       *)
(*                                                                         *)
(* Encoding of JavaScript values:                                          *)
(*   - an optional number (typeof x === 'number' or undefined) is a        *)
(*     sequence of length 0 or 1: <<>> is undefined, <<n>> is n;           *)
(*   - a string is a sequence of one-character strings; undefined and ''   *)
(*     are both <<>> (String(value || '') makes them equal);               *)
(*   - media_group_id 0 is an absent (falsy) media_group_id;               *)
(*   - the Route object held by a queue item is its index in Routes;       *)
(*   - the identity of a queue item object is its field id.                *)
(* Time is Date.now() in abstract ticks.                                   *)
(***************************************************************************)
EXTENDS Integers, Sequences, FiniteSets, TLC

\* ------------------------------------------------------------------ bounds
MaxTime == 4
MaxEvents == 2
MaxMsgId == 2
MaxStrLen == 2
MaxFailures == 1

\* ------------------------------------------------------- generic helpers
Max(a, b) == IF a >= b THEN a ELSE b

Range(s) == {s[i] : i \in 1..Len(s)}

RemoveAt(s, i) == [j \in 1..(Len(s) - 1) |-> IF j < i THEN s[j] ELSE s[j + 1]]

\* ------------------------------------------------------------ usernames
Chars == {"@", " ", "a", "A"}

ToLowerChar(c) == IF c = "A" THEN "a" ELSE c

\* String.prototype.toLowerCase
ToLowerCase(s) == [i \in 1..Len(s) |-> ToLowerChar(s[i])]

RECURSIVE TrimStart(_)
TrimStart(s) == IF s # <<>> /\ Head(s) = " " THEN TrimStart(Tail(s)) ELSE s

RECURSIVE TrimEnd(_)
TrimEnd(s) ==
  IF s # <<>> /\ s[Len(s)] = " " THEN TrimEnd(SubSeq(s, 1, Len(s) - 1)) ELSE s

\* String.prototype.trim
Trim(s) == TrimEnd(TrimStart(s))

\* value.replace(/^@/, '')
StripSigil(s) == IF s # <<>> /\ Head(s) = "@" THEN Tail(s) ELSE s

normalizeUsername(value) == ToLowerCase(Trim(StripSigil(value)))

\* --------------------------------------------------------- route matching
\* one matching constraint is enough
matchTelegramSourceAnyConstraint(source, message) ==
  /\ source.network = "telegram"
  /\ \/ /\ source.chat_id # <<>>
        /\ source.chat_id[1] = message.chat.id
     \/ /\ Trim(source.chat_username) # <<>>
        /\ normalizeUsername(source.chat_username) = normalizeUsername(message.chat.username)

matchTelegramSource(source, message) ==
  IF source.network # "telegram" THEN FALSE
  ELSE LET hasId == source.chat_id # <<>>
           hasUsername == Trim(source.chat_username) # <<>>
           matched1 == hasId => source.chat_id[1] = message.chat.id
           matched2 == hasUsername =>
                         normalizeUsername(source.chat_username)
                           = normalizeUsername(message.chat.username)
       IN (hasId \/ hasUsername) /\ matched1 /\ matched2

matchMaxSource(source, maxChatId) ==
  source.network = "max" /\ source.chat_id = <<maxChatId>>

\* ---------------------------------------------------------------- startup
\* A number of the configuration is absent (<<>>) or present (<<n>>); a string
\* is a sequence of characters, except ids and networks, which are strings.
\* An environment variable is unset, an integer, or text parseInt cannot read.
EnvValue(isSet, isInt, value) == [isSet |-> isSet, isInt |-> isInt, value |-> value]

\* parseIntEnv: [ok, value]
parseIntEnv(raw, fallback) ==
  IF ~raw.isSet THEN [ok |-> TRUE, value |-> fallback]
  ELSE IF ~raw.isInt THEN [ok |-> FALSE, value |-> 0]
  ELSE [ok |-> TRUE, value |-> raw.value]

\* ensureNumber: typeof value === 'number' && Number.isFinite(value)
ensureNumber(value) == value # <<>>

\* ensureString on an id or a network: value.trim().length > 0
ensureString(value) == value \notin {"", " "}

\* any number at all passes
optionsOkAnyNumber(options) == TRUE

\* the two `if (route.options && ... !== undefined)` blocks of validateRoute
optionsOk(options) ==
  /\ options.repost_delay_ms # <<>> => options.repost_delay_ms[1] >= 0
  /\ options.media_group_collect_ms # <<>> => options.media_group_collect_ms[1] >= 0

\* a MAX destination with both targets passes
validateDestinationAtLeastOne(destination) ==
  /\ ensureString(destination.network)
  /\ IF destination.network = "max"
     THEN destination.chat_id # <<>> \/ destination.user_id # <<>>
     ELSE destination.network = "telegram" /\ ensureNumber(destination.chat_id)

\* a destination of any named network passes
validateDestinationAnyNetwork(destination) ==
  /\ ensureString(destination.network)
  /\ IF destination.network = "max"
     THEN (destination.chat_id # <<>>) # (destination.user_id # <<>>)
     ELSE IF destination.network = "telegram"
     THEN ensureNumber(destination.chat_id)
     ELSE TRUE

\* validateDestination returns (TRUE) or throws (FALSE)
validateDestination(destination) ==
  /\ ensureString(destination.network)
  /\ IF destination.network = "max"
     THEN LET hasChat == destination.chat_id # <<>>
              hasUser == destination.user_id # <<>>
          IN hasChat # hasUser
     ELSE IF destination.network = "telegram"
     THEN ensureNumber(destination.chat_id)
     ELSE FALSE

\* a source without a constraint passes
sourceOkWithoutConstraint(source) ==
  ensureString(source.network) /\ source.network \in {"telegram", "max"}

\* the source block of validateRoute
sourceOk(source) ==
  /\ ensureString(source.network)
  /\ IF source.network = "telegram"
     THEN LET hasId == source.chat_id # <<>>
              hasUsername == Trim(source.chat_username) # <<>>
          IN hasId \/ hasUsername
     ELSE IF source.network = "max"
     THEN ensureNumber(source.chat_id)
     ELSE FALSE

\* `index_${index}`
IndexId(index) ==
  CASE index = 0 -> "index_0"
    [] index = 1 -> "index_1"
    [] index = 2 -> "index_2"
    [] OTHER -> "index_n"

\* route.id || `index_${index}`
RouteIdOf(route, index) == IF route.id # "" THEN route.id ELSE IndexId(index)

\* validateRoute returns (TRUE) or throws (FALSE)
validateRouteOk(route, index) ==
  /\ ensureString(RouteIdOf(route, index))
  /\ sourceOk(route.source)
  /\ route.destinations # <<>>
  /\ \A n \in 1..Len(route.destinations) : validateDestination(route.destinations[n])
  /\ optionsOk(route.options)

\* the object validateRoute returns
validateRoute(route, index) ==
  [id |-> RouteIdOf(route, index),
   enabled |-> route.enabled # <<FALSE>>,
   source |-> route.source,
   destinations |-> route.destinations,
   options |-> route.options]

LoadFailed ==
  [ok |-> FALSE, routes |-> <<>>, defaultRepostDelayMs |-> 0, defaultMediaGroupCollectMs |-> 0]

\* appConfig and its two checks, then loadRoutingConfig
startup(e, routes, fallbackDelay, fallbackCollect) ==
  LET delay == parseIntEnv(e.delay, fallbackDelay)
      collect == parseIntEnv(e.collect, fallbackCollect)
  IN IF ~delay.ok \/ ~collect.ok THEN LoadFailed
     ELSE IF delay.value < 0 \/ collect.value < 0 THEN LoadFailed
     ELSE IF \E i \in 1..Len(routes) : ~validateRouteOk(routes[i], i - 1) THEN LoadFailed
     ELSE [ok |-> TRUE,
           routes |-> [i \in 1..Len(routes) |-> validateRoute(routes[i], i - 1)],
           defaultRepostDelayMs |-> delay.value,
           defaultMediaGroupCollectMs |-> collect.value]

\* ------------------------------------------------------- markdown text
\* A text is a sequence of characters, a span an entity of Telegram:
\* [type, offset, length]. The tree is the sorted list of the spans that pass
\* the filter, each with its `end` and its parent: the index of the parent in
\* this list, 0 for the root, -1 for a span that was discarded.
MaxTextLen == 3

\* the grave accent, which a string of this notation cannot hold
Backtick == "BACKTICK"

\* the characters of the class of the regular expression of escapeMarkdownText
MarkupChars ==
  {"\\", Backtick, "*", "_", "{", "}", "[", "]", "(", ")", "#", "+", "-", ".", "!", "|", ">", "~"}

\* the asterisk is left alone
escapeAllButAsterisk(value) ==
  IF value = <<>> THEN <<>>
  ELSE LET EscapeChar(c) == IF c \in MarkupChars \ {"*"} THEN <<"\\", c>> ELSE <<c>>
           RECURSIVE Go(_)
           Go(v) == IF v = <<>> THEN <<>> ELSE EscapeChar(Head(v)) \o Go(Tail(v))
       IN Go(value)

\* String(value).replace(/([...])/g, '\\$1')
RECURSIVE escapeMarkdownText(_)
escapeMarkdownText(value) ==
  IF value = <<>> THEN <<>>
  ELSE (IF Head(value) \in MarkupChars THEN <<"\\", Head(value)>> ELSE <<Head(value)>>)
         \o escapeMarkdownText(Tail(value))

\* the slice loses its first character
SliceWithoutFirst(sourceText, from, to) == SubSeq(sourceText, from + 2, to)

\* sourceText.slice(from, to), offsets counted from 0
Slice(sourceText, from, to) == SubSeq(sourceText, from + 1, to)

\* the filter of buildEntityTree
entityPassesFilter(entity, textLength) ==
  /\ ~(entity.length <= 0 \/ entity.offset < 0)
  /\ ~(entity.offset + entity.length > textLength)

\* `.map((entity) => ({ ...entity, end: entity.offset + entity.length, children: [] }))`
withEnd(entity) ==
  [type |-> entity.type, offset |-> entity.offset, length |-> entity.length,
   end |-> entity.offset + entity.length, parent |-> -1]

\* the comparator of the sort: a before b
entityBefore(a, b) ==
  IF a.offset # b.offset THEN a.offset < b.offset ELSE a.length > b.length

RECURSIVE InsertEntity(_, _)
InsertEntity(sorted, x) ==
  IF sorted = <<>> THEN <<x>>
  ELSE IF ~entityBefore(x, sorted[Len(sorted)]) THEN Append(sorted, x)
  ELSE Append(InsertEntity(SubSeq(sorted, 1, Len(sorted) - 1), x), sorted[Len(sorted)])

RECURSIVE SortEntitiesFrom(_, _)
SortEntitiesFrom(acc, rest) ==
  IF rest = <<>> THEN acc ELSE SortEntitiesFrom(InsertEntity(acc, Head(rest)), Tail(rest))

\* the spans stay in the order of the message
keepEntityOrder(entities) == entities

\* `.sort((a, b) => ...)`: by offset, then the longer span first; stable
sortEntities(entities) == SortEntitiesFrom(<<>>, entities)

\* offset and end of a node of the stack: 0 is the root
NodeOffset(tree, n) == IF n = 0 THEN 0 ELSE tree[n].offset

NodeEnd(tree, n, textLength) == IF n = 0 THEN textLength ELSE tree[n].end

\* `while (stack.length && entity.offset >= stack[stack.length - 1].end) stack.pop()`
RECURSIVE popFinished(_, _, _, _)
popFinished(stack, tree, entity, textLength) ==
  IF stack # <<>> /\ entity.offset >= NodeEnd(tree, stack[Len(stack)], textLength)
  THEN popFinished(SubSeq(stack, 1, Len(stack) - 1), tree, entity, textLength)
  ELSE stack

\* every span is taken by the node on top of the stack
fitsAnyParent(tree, entity, parent, textLength) == TRUE

\* the negation of `entity.offset < parent.offset || entity.end > parent.end`
fitsParent(tree, entity, parent, textLength) ==
  ~(entity.offset < NodeOffset(tree, parent) \/ entity.end > NodeEnd(tree, parent, textLength))

\* the loop `for (const entity of sorted)` from entity i on
RECURSIVE placeEntities(_, _, _, _)
placeEntities(tree, stack, i, textLength) ==
  IF i > Len(tree) THEN tree
  ELSE LET entity == tree[i]
           popped == popFinished(stack, tree, entity, textLength)
       IN IF popped = <<>> THEN placeEntities(tree, popped, i + 1, textLength)
          ELSE IF ~fitsParent(tree, entity, popped[Len(popped)], textLength)
          THEN placeEntities(tree, popped, i + 1, textLength)
          ELSE placeEntities([tree EXCEPT ![i].parent = popped[Len(popped)]],
                             Append(popped, i), i + 1, textLength)

buildEntityTree(textLength, entities) ==
  LET Passes(entity) == entityPassesFilter(entity, textLength)
      filtered == SelectSeq(entities, Passes)
      sorted == sortEntities([n \in 1..Len(filtered) |-> withEnd(filtered[n])])
  IN placeEntities(sorted, <<0>>, 1, textLength)

\* node.children of node n, in the order of the pushes, which the sort by
\* offset of renderNodeAsMarkdown keeps
ChildrenOf(tree, n) ==
  LET IsChild(i) == tree[i].parent = n
  IN SelectSeq([i \in 1..Len(tree) |-> i], IsChild)

\* raw.replace(/<backtick>/g, '\\<backtick>')
RECURSIVE escapeBackticks(_)
escapeBackticks(raw) ==
  IF raw = <<>> THEN <<>>
  ELSE (IF Head(raw) = Backtick THEN <<"\\", Backtick>> ELSE <<Head(raw)>>) \o escapeBackticks(Tail(raw))

\* the text before and after innerText, for the kinds that wrap it
WrapperOf(type) ==
  CASE type = "bold" -> <<"*", "*">>
    [] type = "italic" -> <<"_">>
    [] type = "underline" -> <<"+", "+">>
    [] type = "strikethrough" -> <<"~", "~">>
    [] OTHER -> <<>>

\* the span wraps its escaped raw text: what its children rendered is dropped
wrapRawAsMarkdown(entity, innerText, rawText) ==
  WrapperOf(entity.type) \o escapeMarkdownText(rawText) \o WrapperOf(entity.type)

\* wrapEntityAsMarkdown for bold, italic, underline, strikethrough, code and
\* the kinds that return innerText (text_mention, default)
wrapEntityAsMarkdown(entity, innerText, rawText) ==
  IF entity.type = "code" THEN <<Backtick>> \o escapeBackticks(rawText) \o <<Backtick>>
  ELSE WrapperOf(entity.type) \o innerText \o WrapperOf(entity.type)

RECURSIVE renderNodeAsMarkdown(_, _, _)
RECURSIVE renderChildren(_, _, _, _, _)
\* the loop over the children of node n from the child at the head of `children`
\* on, and the text after the last child
renderChildren(tree, n, children, cursor, sourceText) ==
  IF children = <<>>
  THEN IF cursor < NodeEnd(tree, n, Len(sourceText))
       THEN escapeMarkdownText(Slice(sourceText, cursor, NodeEnd(tree, n, Len(sourceText))))
       ELSE <<>>
  ELSE LET child == tree[Head(children)]
           before == IF child.offset > cursor
                     THEN escapeMarkdownText(Slice(sourceText, cursor, child.offset))
                     ELSE <<>>
           innerMarkdown == renderNodeAsMarkdown(tree, Head(children), sourceText)
           rawText == Slice(sourceText, child.offset, child.end)
       IN before \o wrapEntityAsMarkdown(child, innerMarkdown, rawText)
                 \o renderChildren(tree, n, Tail(children), child.end, sourceText)

renderNodeAsMarkdown(tree, n, sourceText) ==
  renderChildren(tree, n, ChildrenOf(tree, n), NodeOffset(tree, n), sourceText)

formatTelegramTextAsMarkdown(text, entities) ==
  IF text = <<>> THEN <<>>
  ELSE IF entities = <<>> THEN escapeMarkdownText(text)
  ELSE renderNodeAsMarkdown(buildEntityTree(Len(text), entities), 0, text)

\* ------------------------------------------------------ media candidates
\* A media field of a message-like object is absent ("none"), present without
\* a usable file_id ("bad") or present with one ("ok"). A file_id names the
\* object, the field and the position it sits at. The sizes of `photo` are in
\* ascending width, as Telegram sends them. A document carries the class of its
\* mime type and of the extension of its file name.
MaxPhotos == 2

FieldStates == {"none", "bad", "ok"}

FileId(messageLike, field, n) == <<messageLike.origin, field, n>>

\* hasValidFileId(x?.file_id)
hasValidFileId(state) == state = "ok"

resolveDocumentKind(document) ==
  IF document.mime = "video/" THEN "video"
  ELSE IF document.mime = "audio/" THEN "audio"
  ELSE IF document.file_name = ".mp4" THEN "video"
  ELSE IF document.file_name = ".mp3" THEN "audio"
  ELSE "file"

\* the loop over messageLike.photo, from the last size down to the first
RECURSIVE photoCandidates(_, _, _)
photoCandidates(messageLike, label, i) ==
  IF i = 0 THEN <<>>
  ELSE (IF hasValidFileId(messageLike.photo[i])
        THEN <<[label |-> label, kind |-> "image", fileId |-> FileId(messageLike, "photo", i)]>>
        ELSE <<>>)
         \o photoCandidates(messageLike, label, i - 1)

\* one `if (hasValidFileId(messageLike.<field>?.file_id)) results.push(...)`
fieldCandidate(messageLike, label, field, kind) ==
  IF hasValidFileId(messageLike[field])
  THEN <<[label |-> label, kind |-> kind, fileId |-> FileId(messageLike, field, 0)]>>
  ELSE <<>>

photoCandidatesDescending(messageLike, label) ==
  photoCandidates(messageLike, label, Len(messageLike.photo))

\* buildMediaCandidates; an absent object is <<>>, a present one <<object>>
buildMediaCandidates(optional, label) ==
  IF optional = <<>> THEN <<>>
  ELSE LET messageLike == optional[1]
       IN photoCandidatesDescending(messageLike, label)
            \o fieldCandidate(messageLike, label, "video", "video")
            \o fieldCandidate(messageLike, label, "animation", "video")
            \o fieldCandidate(messageLike, label, "audio", "audio")
            \o fieldCandidate(messageLike, label, "voice", "audio")
            \o fieldCandidate(messageLike, label, "video_note", "video")
            \o (IF hasValidFileId(messageLike.document.state)
                THEN <<[label |-> label, kind |-> resolveDocumentKind(messageLike.document),
                        fileId |-> FileId(messageLike, "document", 0)]>>
                ELSE <<>>)

\* [message, message.reply_to_message, message.external_reply].filter(Boolean)
getMessageCandidates(message) ==
  <<message.own>> \o message.reply_to_message \o message.external_reply

\* candidates[n], undefined (<<>>) beyond the end of the array
At(candidates, n) == IF n <= Len(candidates) THEN <<candidates[n]>> ELSE <<>>

\* the reply and the external reply come before the message itself
mediaCandidatesRepliesFirst(message) ==
  LET candidates == getMessageCandidates(message)
  IN buildMediaCandidates(At(candidates, 2), "reply_to_message")
       \o buildMediaCandidates(At(candidates, 3), "external_reply")
       \o buildMediaCandidates(At(candidates, 1), "message")

\* the array `mediaCandidates` of buildAttachmentsFromTelegram
mediaCandidatesOf(message) ==
  LET candidates == getMessageCandidates(message)
  IN buildMediaCandidates(At(candidates, 1), "message")
       \o buildMediaCandidates(At(candidates, 2), "reply_to_message")
       \o buildMediaCandidates(At(candidates, 3), "external_reply")

\* ------------------------------------------------------ attachment cascade
WarningTooBig == "file is too big for the Bot API"

WarningUnavailable == "file is not available through the Bot API"

NoAttachments == [attachments |-> <<>>, warningText |-> ""]

\* the running call of buildAttachmentsFromTelegram: the candidates, the
\* attempts made so far (history), the flag, the returned value and the position
NoCascade ==
  [candidates |-> <<>>, tried |-> <<>>, tooBigErrorSeen |-> FALSE,
   result |-> NoAttachments, pc |-> "idle"]

\* the code up to the loop
beginCascade(message) ==
  LET mediaCandidates == mediaCandidatesOf(message)
  IN [candidates |-> mediaCandidates, tried |-> <<>>, tooBigErrorSeen |-> FALSE,
      result |-> NoAttachments,
      pc |-> IF mediaCandidates = <<>> THEN "done" ELSE "uploading"]

\* the candidate of the running iteration of `for (const candidate of mediaCandidates)`
currentCandidate(a) == a.candidates[Len(a.tried) + 1]

\* the loop goes on after an upload that succeeded
onUploadSuccessContinue(a, attachment) ==
  LET tried == Append(a.tried, [candidate |-> currentCandidate(a), outcome |-> "ok"])
  IN [a EXCEPT !.tried = tried,
               !.result = [attachments |-> <<attachment>>, warningText |-> ""],
               !.pc = IF Len(tried) = Len(a.candidates) THEN "done" ELSE "uploading"]

\* `return { attachments: [attachment], warningText: '' }`
onUploadSuccess(a, attachment) ==
  [a EXCEPT !.tried = Append(@, [candidate |-> currentCandidate(a), outcome |-> "ok"]),
            !.result = [attachments |-> <<attachment>>, warningText |-> ""],
            !.pc = "done"]

\* the code after the loop
afterLoop(a) ==
  [a EXCEPT !.result = [attachments |-> <<>>,
                        warningText |-> IF a.tooBigErrorSeen THEN WarningTooBig
                                        ELSE WarningUnavailable],
            !.pc = "done"]

\* the error leaves buildAttachmentsFromTelegram
rethrowUploadError(a, tooBig) ==
  [a EXCEPT !.tried = Append(@, [candidate |-> currentCandidate(a),
                                 outcome |-> IF tooBig THEN "too_big" ELSE "failed"]),
            !.pc = "threw"]

\* the flag follows the latest error
flagOfLastError(seen, tooBig) == tooBig

\* `if (isTooBigTelegramError(err)) tooBigErrorSeen = true`
flagAfterError(seen, tooBig) == seen \/ tooBig

\* the catch block, then the next iteration or the code after the loop
onUploadError(a, tooBig) ==
  LET b == [a EXCEPT !.tried = Append(@, [candidate |-> currentCandidate(a),
                                          outcome |-> IF tooBig THEN "too_big" ELSE "failed"]),
                     !.tooBigErrorSeen = flagAfterError(@, tooBig)]
  IN IF Len(b.tried) = Len(b.candidates) THEN afterLoop(b) ELSE b

\* ------------------------------------------------------------ route table
\* appConfig.defaultRepostDelayMs / defaultMediaGroupCollectMs, in ticks
DefaultRepostDelayMs == 0
DefaultMediaGroupCollectMs == 1

\* state.maxBotUserId after bootstrap
MaxBotUserId == 9

\* routingConfig.routes as validateRoute returns them
Routes == <<
  [id |-> "long", enabled |-> TRUE,
   source |-> [network |-> "telegram", chat_id |-> <<1>>, chat_username |-> <<>>],
   destinations |-> <<[network |-> "max", chat_id |-> <<71>>, user_id |-> <<>>]>>,
   options |-> [repost_delay_ms |-> <<2>>, media_group_collect_ms |-> <<2>>]],
  [id |-> "short", enabled |-> TRUE,
   source |-> [network |-> "telegram", chat_id |-> <<>>, chat_username |-> <<"@", "A">>],
   destinations |-> <<[network |-> "max", chat_id |-> <<>>, user_id |-> <<72>>],
                      [network |-> "telegram", chat_id |-> <<3>>, user_id |-> <<>>]>>,
   options |-> [repost_delay_ms |-> <<>>, media_group_collect_ms |-> <<>>]],
  [id |-> "off", enabled |-> FALSE,
   source |-> [network |-> "telegram", chat_id |-> <<1>>, chat_username |-> <<>>],
   destinations |-> <<[network |-> "max", chat_id |-> <<73>>, user_id |-> <<>>]>>,
   options |-> [repost_delay_ms |-> <<1>>, media_group_collect_ms |-> <<1>>]],
  [id |-> "other", enabled |-> TRUE,
   source |-> [network |-> "telegram", chat_id |-> <<2>>, chat_username |-> <<>>],
   destinations |-> <<[network |-> "max", chat_id |-> <<74>>, user_id |-> <<>>]>>,
   options |-> [repost_delay_ms |-> <<1>>, media_group_collect_ms |-> <<1>>]],
  [id |-> "back", enabled |-> TRUE,
   source |-> [network |-> "max", chat_id |-> <<7>>, chat_username |-> <<>>],
   destinations |-> <<[network |-> "telegram", chat_id |-> <<1>>, user_id |-> <<>>]>>,
   options |-> [repost_delay_ms |-> <<1>>, media_group_collect_ms |-> <<>>]]
>>

RouteIds == 1..Len(Routes)

\* getRouteDelayMs on a route object, under a given appConfig.defaultRepostDelayMs
routeDelayMs(route, default) ==
  IF route.options.repost_delay_ms # <<>> THEN route.options.repost_delay_ms[1] ELSE default

\* getRouteMediaGroupCollectMs on a route object
routeMediaGroupCollectMs(route, default) ==
  IF route.options.media_group_collect_ms # <<>>
  THEN route.options.media_group_collect_ms[1]
  ELSE default

getRouteDelayMs(r) == routeDelayMs(Routes[r], DefaultRepostDelayMs)

getRouteMediaGroupCollectMs(r) ==
  routeMediaGroupCollectMs(Routes[r], DefaultMediaGroupCollectMs)

AllRoutes == [i \in RouteIds |-> i]

\* the enabled flag is not looked at
getRoutesIgnoringEnabled == AllRoutes

\* routingConfig.routes.filter((route) => route.enabled !== false)
getEnabledRoutes ==
  LET IsEnabled(r) == Routes[r].enabled # FALSE
  IN SelectSeq(AllRoutes, IsEnabled)

\* every enabled route with a Telegram source takes the message
findTelegramRoutesOfAnyChat(message) ==
  LET Matches(r) == Routes[r].source.network = "telegram"
  IN SelectSeq(getEnabledRoutes, Matches)

findTelegramRoutes(message) ==
  LET Matches(r) == matchTelegramSource(Routes[r].source, message)
  IN SelectSeq(getEnabledRoutes, Matches)

findMaxRoutes(chatId) ==
  LET Matches(r) == matchMaxSource(Routes[r].source, chatId)
  IN SelectSeq(getEnabledRoutes, Matches)

\* ------------------------------------------------------------ inbound events
TelegramChats == {1, 2, 3}

\* the username of each Telegram chat of the environment (<<>>: none)
ChatUsername(c) == IF c = 1 THEN <<"a">> ELSE <<>>

TelegramChat(c) == [id |-> c, username |-> ChatUsername(c)]

\* album parts carry any message_id; a message outside an album carries message_id 1
TelegramMessages ==
  [chat : {TelegramChat(c) : c \in TelegramChats},
   message_id : 1..MaxMsgId, media_group_id : {1}]
    \cup [chat : {TelegramChat(c) : c \in TelegramChats},
          message_id : {1}, media_group_id : {0}]

\* ctx of message_created: chatId 0 stands for a missing chat id, hasMessage
\* tells whether ctx.message is there
MaxContexts ==
  [chatId : {0, 7, 8}, hasMessage : BOOLEAN, sender : {MaxBotUserId, 5}, mid : {1}]

\* ------------------------------------------------------------------- state
VARIABLES
  now,               \* Date.now()
  queue,             \* state.queue
  queueBusy,         \* state.queueBusy
  loops,             \* the suspended activations of processQueue
  mediaGroupBuffer,  \* state.mediaGroupBuffer: key -> [messages, timer, route]
  nEvents,           \* inbound events dispatched so far
  nPushed,           \* number of queue items created so far (the next item is nPushed + 1)
  handed,            \* history: item id -> number of hand-offs to the Delivery Executor
  done,              \* history: ids of the items whose delivery returned or threw
  failed,            \* history: ids of the items whose delivery threw
  arrivals,          \* history: the collect calls of each open buffer entry
  timers,            \* the pending timers collectMediaGroup has set: [key, at]
  lastFlush,         \* history: the latest batch-window expiry
  droppedSourceLogs, \* state.droppedSourceLogs: chat id -> Date.now() of the last log line
  src, msg, matchResult, matchPc,  \* inputs and result of matchTelegramSource
  env,               \* process.env: DEFAULT_REPOST_DELAY_MS, DEFAULT_MEDIA_GROUP_COLLECT_MS
  doc,               \* JSON.parse of the routing config file: parsed.routes
  loadResult,        \* appConfig defaults and routingConfig, or the startup error
  loadPc,            \* position of the startup code
  tgMessage,         \* the argument of buildAttachmentsFromTelegram
  att,               \* the running call of buildAttachmentsFromTelegram
  rnd,               \* the arguments and the result of formatTelegramTextAsMarkdown
  fwd,               \* the running call of forwardTelegramSingle/Group or forwardMaxSingle
  stream             \* the batch buffer under a stream of album parts, time counted down

vars == <<now, queue, queueBusy, loops, mediaGroupBuffer, nEvents, nPushed,
          handed, done, failed, arrivals, timers, lastFlush, droppedSourceLogs,
          src, msg, matchResult, matchPc, env, doc, loadResult, loadPc,
          tgMessage, att, rnd, fwd, stream>>

matchVars == <<src, msg, matchResult, matchPc>>

loadVars == <<env, doc, loadResult, loadPc>>

attachVars == <<tgMessage, att>>

\* the variables of the pure functions, which the handlers of the bridge leave alone
textVars == <<rnd, fwd>>

pureVars == <<matchVars, loadVars, attachVars, textVars, stream>>

\* the startup code is not under study
LoadIdle ==
  /\ env = [delay |-> EnvValue(FALSE, FALSE, 0), collect |-> EnvValue(FALSE, FALSE, 0)]
  /\ doc = <<>>
  /\ loadResult = LoadFailed
  /\ loadPc = "idle"

\* a message-like object without media
NoMedia(origin) ==
  [origin |-> origin, photo |-> <<>>, video |-> "none", animation |-> "none",
   audio |-> "none", voice |-> "none", video_note |-> "none",
   document |-> [state |-> "none", mime |-> "other", file_name |-> "other"]]

\* no call of buildAttachmentsFromTelegram is under study
AttachIdle ==
  /\ tgMessage = [own |-> NoMedia("message"), reply_to_message |-> <<>>, external_reply |-> <<>>]
  /\ att = NoCascade

\* no call of formatTelegramTextAsMarkdown
NoRender ==
  [text |-> <<>>, entities |-> <<>>, tree |-> <<>>, markdown |-> <<>>, pc |-> "idle"]

\* no call of a forward function
NoForward ==
  [kind |-> "none", route |-> [destinations |-> <<>>, include_telegram_footer |-> FALSE],
   messages |-> <<>>, text |-> <<>>, attachments |-> <<>>, calls |-> <<>>, pc |-> "idle"]

\* neither the text functions nor the forward functions are under study
TextIdle ==
  /\ rnd = NoRender
  /\ fwd = NoForward

\* no stream of album parts
NoStream == [buffer |-> <<>>, timers |-> <<>>, batches |-> <<>>, pc |-> "idle"]

StreamIdle == stream = NoStream

NoItem == [id |-> 0, kind |-> "none", route |-> 0, runAt |-> 0, payload |-> <<>>]

\* ------------------------------------------------------- queue primitives
\* the item is put in front
Unshift(q, item) == <<item>> \o q

\* Array.prototype.push
Push(q, item) == Append(q, item)

\* the head is read but stays in the array
Peek(q) == q

\* Array.prototype.shift (a no-op on an empty array)

Shift(q) == IF q = <<>> THEN q ELSE Tail(q)

RECURSIVE InsertByRunAt(_, _)
InsertByRunAt(sorted, x) ==
  IF sorted = <<>> THEN <<x>>
  ELSE IF sorted[Len(sorted)].runAt <= x.runAt THEN Append(sorted, x)
  ELSE Append(InsertByRunAt(SubSeq(sorted, 1, Len(sorted) - 1), x), sorted[Len(sorted)])

RECURSIVE SortFrom(_, _)
SortFrom(acc, rest) ==
  IF rest = <<>> THEN acc ELSE SortFrom(InsertByRunAt(acc, Head(rest)), Tail(rest))

\* items with the same runAt come out in the reverse of their queue order
SortByRunAtTiesReversed(q) == SortFrom(<<>>, [i \in 1..Len(q) |-> q[Len(q) + 1 - i]])

\* state.queue.sort((a, b) => a.runAt - b.runAt): stable
SortByRunAt(q) == SortFrom(<<>>, q)

RECURSIVE InsertByMessageId(_, _)
InsertByMessageId(sorted, x) ==
  IF sorted = <<>> THEN <<x>>
  ELSE IF sorted[Len(sorted)].message_id <= x.message_id THEN Append(sorted, x)
  ELSE Append(InsertByMessageId(SubSeq(sorted, 1, Len(sorted) - 1), x),
              sorted[Len(sorted)])

RECURSIVE SortMessagesFrom(_, _)
SortMessagesFrom(acc, rest) ==
  IF rest = <<>> THEN acc
  ELSE SortMessagesFrom(InsertByMessageId(acc, Head(rest)), Tail(rest))

\* the messages stay in arrival order
UnsortedMessages(messages) == messages

\* [...existing.messages].sort((a, b) => a.message_id - b.message_id)
SortByMessageId(messages) == SortMessagesFrom(<<>>, messages)

\* ------------------------------------------------ the worker: processQueue
\* The synchronous part of the handlers works on a copy of the state.
Cur ==
  [queue |-> queue, queueBusy |-> queueBusy, loops |-> loops,
   buf |-> mediaGroupBuffer, arr |-> arrivals, timers |-> timers, nPushed |-> nPushed,
   handed |-> handed]

\* queue.shift() followed by the call of the Delivery Executor on `next`
HandOff(S, i, next, t) ==
  [S EXCEPT !.queue = Shift(S.queue),
            !.loops[i] = [pc |-> "delivering", next |-> next, wake |-> t],
            !.handed[next.id] = @ + 1]

\* `finally { state.queueBusy = false; }`: the activation ends
ExitLoop(S, i) == [S EXCEPT !.queueBusy = FALSE, !.loops = RemoveAt(@, i)]

\* One pass from `while (state.queue.length)` up to the next await.
LoopHead(S, i, t) ==
  IF S.queue = <<>> THEN ExitLoop(S, i)
  ELSE LET q == SortByRunAt(S.queue)
           next == q[1]
           waitMs == Max(0, next.runAt - t)
           S1 == [S EXCEPT !.queue = q]
       IN IF waitMs > 0
          THEN [S1 EXCEPT !.loops[i] = [pc |-> "sleeping", next |-> next,
                                        wake |-> t + waitMs]]
          ELSE HandOff(S1, i, next, t)

StartLoop(S, t) ==
  LoopHead([S EXCEPT !.queueBusy = TRUE,
                     !.loops = Append(@, [pc |-> "head", next |-> NoItem, wake |-> t])],
           Len(S.loops) + 1, t)

\* no `if (state.queueBusy) return`
processQueueUnguarded(S, t) == StartLoop(S, t)

processQueue(S, t) == IF S.queueBusy THEN S ELSE StartLoop(S, t)

\* the exception leaves the while loop: only `finally` runs
throwEscapesLoop(S, i, t) == ExitLoop(S, i)

\* `catch (err) { log(...) }` inside the loop body: the loop goes on
catchAndContinue(S, i, t) == LoopHead(S, i, t)

\* ------------------------------------------------------------- enqueueing
\* runAt: Date.now() + getRouteDelayMs(route)
RunAt(r, t) == t + getRouteDelayMs(r)

\* the item is pushed and processQueue is not called
enqueueWithoutWorker(S, kind, r, payload, t) ==
  LET item == [id |-> S.nPushed + 1, kind |-> kind, route |-> r,
               runAt |-> RunAt(r, t), payload |-> payload]
  IN [S EXCEPT !.queue = Push(@, item), !.nPushed = @ + 1, !.handed = Append(@, 0)]

\* push of a new item, then `void processQueue()`
enqueue(S, kind, r, payload, t) ==
  LET item == [id |-> S.nPushed + 1, kind |-> kind, route |-> r,
               runAt |-> RunAt(r, t), payload |-> payload]
  IN processQueue([S EXCEPT !.queue = Push(@, item),
                            !.nPushed = @ + 1,
                            !.handed = Append(@, 0)], t)

enqueueSingle(S, r, message, t) == enqueue(S, "telegram_single", r, <<message>>, t)

enqueueMediaGroup(S, r, messages, t) == enqueue(S, "telegram_group", r, messages, t)

enqueueMaxMessage(S, r, payload, t) == enqueue(S, "max_single", r, <<payload>>, t)

\* --------------------------------------------------------- batch buffer
\* the key does not name the route
BufferKeyWithoutRoute(r, message) == <<"", message.chat.id, message.media_group_id>>

BufferKey(r, message) == <<Routes[r].id, message.chat.id, message.media_group_id>>

\* push unless a message with this message_id is already held
appendIfNew(messages, message) ==
  IF \E n \in 1..Len(messages) : messages[n].message_id = message.message_id
  THEN messages
  ELSE Append(messages, message)

\* a running timer is left alone
keepRunningTimer(timer, t, ms) == IF timer # <<>> THEN timer ELSE <<t + ms>>

\* clearTimeout(existing.timer); existing.timer = setTimeout(..., ms)
restartTimer(timer, t, ms) == <<t + ms>>

\* the timer that was running is not cleared
clearTimeoutNothing(pending, key, timer) == pending

\* `if (existing.timer) clearTimeout(existing.timer)`: the timer is no longer pending
clearTimeout(pending, key, timer) ==
  IF timer = <<>> THEN pending
  ELSE LET Is(n) == pending[n] = [key |-> key, at |-> timer[1]]
       IN IF \E n \in 1..Len(pending) : Is(n)
          THEN RemoveAt(pending, CHOOSE n \in 1..Len(pending) :
                                   Is(n) /\ \A m \in 1..(n - 1) : ~Is(m))
          ELSE pending

\* setTimeout(callback, ms): one more pending timer
setTimeout(pending, key, at) == Append(pending, [key |-> key, at |-> at])

collectMediaGroup(S, r, message, t) ==
  LET key == BufferKey(r, message)
      isOpen == key \in DOMAIN S.buf
      existing == IF isOpen THEN S.buf[key]
                  ELSE [messages |-> <<>>, timer |-> <<>>, route |-> r]
      entry == [messages |-> appendIfNew(existing.messages, message),
                timer |-> restartTimer(existing.timer, t, getRouteMediaGroupCollectMs(r)),
                route |-> r]
      calls == [ids |-> (IF isOpen THEN S.arr[key].ids ELSE <<>>) \o <<message.message_id>>,
                first |-> IF isOpen THEN S.arr[key].first ELSE t,
                last |-> t]
      keys == DOMAIN S.buf \cup {key}
  IN [S EXCEPT
        !.buf = [k \in keys |-> IF k = key THEN entry ELSE S.buf[k]],
        !.arr = [k \in keys |-> IF k = key THEN calls ELSE S.arr[k]],
        !.timers = setTimeout(clearTimeout(@, key, existing.timer), key, entry.timer[1])]

\* ---------------------------------------------------------------- dispatch
\* an album part is collected and also enqueued on its own
RECURSIVE dispatchTelegramAlsoSingle(_, _, _, _)
dispatchTelegramAlsoSingle(S, routes, message, t) ==
  IF routes = <<>> THEN S
  ELSE dispatchTelegramAlsoSingle(
         IF message.media_group_id # 0
         THEN enqueueSingle(collectMediaGroup(S, Head(routes), message, t),
                            Head(routes), message, t)
         ELSE enqueueSingle(S, Head(routes), message, t),
         Tail(routes), message, t)

RECURSIVE dispatchTelegram(_, _, _, _)
dispatchTelegram(S, routes, message, t) ==
  IF routes = <<>> THEN S
  ELSE dispatchTelegram(
         IF message.media_group_id # 0
         THEN collectMediaGroup(S, Head(routes), message, t)
         ELSE enqueueSingle(S, Head(routes), message, t),
         Tail(routes), message, t)

RECURSIVE dispatchMax(_, _, _, _)
dispatchMax(S, routes, payload, t) ==
  IF routes = <<>> THEN S
  ELSE dispatchMax(enqueueMaxMessage(S, Head(routes), payload, t), Tail(routes), payload, t)

\* ------------------------------------------------------- ignored sources
\* the cool-down of the log line of an ignored chat (60_000 ms), in ticks
DroppedLogCooldownMs == 3

\* Date.now() at clock reading t: the process starts more than one cool-down
\* after the epoch
DateNow(t) == DroppedLogCooldownMs + t

\* the line is written for every ignored message
logDroppedTelegramMessageEveryTime(logs, message, t) ==
  [k \in DOMAIN logs \cup {message.chat.id} |->
     IF k = message.chat.id THEN DateNow(t) ELSE logs[k]]

logDroppedTelegramMessage(logs, message, t) ==
  LET key == message.chat.id
      last == IF key \in DOMAIN logs THEN logs[key] ELSE 0
  IN IF DateNow(t) - last < DroppedLogCooldownMs THEN logs
     ELSE [k \in DOMAIN logs \cup {key} |-> IF k = key THEN DateNow(t) ELSE logs[k]]

\* ----------------------------------------------------------------- actions
Install(S) ==
  /\ queue' = S.queue
  /\ queueBusy' = S.queueBusy
  /\ loops' = S.loops
  /\ mediaGroupBuffer' = S.buf
  /\ arrivals' = S.arr
  /\ timers' = S.timers
  /\ nPushed' = S.nPushed
  /\ handed' = S.handed

\* every timer an event starts must be able to expire before the clock stops
TelegramHorizon(message) ==
  \A n \in 1..Len(findTelegramRoutes(message)) :
     LET r == findTelegramRoutes(message)[n]
     IN now + (IF message.media_group_id # 0 THEN getRouteMediaGroupCollectMs(r) ELSE 0)
            + getRouteDelayMs(r) <= MaxTime

MaxHorizon(chatId) ==
  \A n \in 1..Len(findMaxRoutes(chatId)) :
     now + getRouteDelayMs(findMaxRoutes(chatId)[n]) <= MaxTime

\* the event is counted when it changes the state
onTelegramMessage(message) ==
  /\ nEvents < MaxEvents
  /\ TelegramHorizon(message)
  /\ LET routes == findTelegramRoutes(message)
     IN IF routes = <<>>
        THEN /\ droppedSourceLogs' = logDroppedTelegramMessage(droppedSourceLogs, message, now)
             /\ nEvents' = IF droppedSourceLogs' = droppedSourceLogs THEN nEvents
                           ELSE nEvents + 1
             /\ UNCHANGED <<queue, queueBusy, loops, mediaGroupBuffer, arrivals, timers,
                            nPushed, handed>>
        ELSE /\ Install(dispatchTelegram(Cur, routes, message, now))
             /\ nEvents' = nEvents + 1
             /\ UNCHANGED droppedSourceLogs
  /\ UNCHANGED <<now, done, failed, lastFlush, pureVars>>

\* the bridge relays its own messages too
isOwnMessageNever(ctx) == FALSE

\* state.maxBotUserId && maxMessage.sender?.user_id === state.maxBotUserId
isOwnMessage(ctx) == MaxBotUserId # 0 /\ ctx.sender = MaxBotUserId

onMaxMessage(ctx) ==
  /\ nEvents < MaxEvents
  /\ MaxHorizon(ctx.chatId)
  /\ LET routes == findMaxRoutes(ctx.chatId)
     IN IF ~ctx.hasMessage \/ ctx.chatId = 0 \/ isOwnMessage(ctx) \/ routes = <<>>
        THEN UNCHANGED <<queue, queueBusy, loops, mediaGroupBuffer, arrivals, timers,
                         nPushed, handed, nEvents>>
        ELSE /\ Install(dispatchMax(Cur, routes,
                                    [chatId |-> ctx.chatId, mid |-> ctx.mid], now))
             /\ nEvents' = nEvents + 1
  /\ UNCHANGED <<now, done, failed, lastFlush, droppedSourceLogs, pureVars>>

\* the callback without `state.mediaGroupBuffer.delete(key)`
BatchWindowExpiresKeepingEntry(key) ==
  /\ key \in DOMAIN mediaGroupBuffer
  /\ now >= mediaGroupBuffer[key].timer[1]
  /\ [key |-> key, at |-> mediaGroupBuffer[key].timer[1]] \in Range(timers)
  /\ LET entry == mediaGroupBuffer[key]
         T == enqueueMediaGroup([Cur EXCEPT !.timers = clearTimeout(@, key, entry.timer)],
                                entry.route, SortByMessageId(entry.messages), now)
     IN /\ Install(T)
        /\ lastFlush' = [key |-> key, route |-> entry.route, at |-> now,
                         calls |-> arrivals[key],
                         items |-> {x \in Range(T.queue) \cup {T.loops[i].next : i \in 1..Len(T.loops)} :
                                      x.id > nPushed}]
  /\ UNCHANGED <<now, nEvents, done, failed, droppedSourceLogs, pureVars>>

\* the setTimeout callback of collectMediaGroup
BatchWindowExpires(key) ==
  /\ key \in DOMAIN mediaGroupBuffer
  /\ now >= mediaGroupBuffer[key].timer[1]
  /\ [key |-> key, at |-> mediaGroupBuffer[key].timer[1]] \in Range(timers)
  /\ LET entry == mediaGroupBuffer[key]
         rest == DOMAIN mediaGroupBuffer \ {key}
         ordered == SortByMessageId(entry.messages)
         S == [Cur EXCEPT !.buf = [k \in rest |-> mediaGroupBuffer[k]],
                          !.arr = [k \in rest |-> arrivals[k]],
                          !.timers = clearTimeout(@, key, entry.timer)]
         T == enqueueMediaGroup(S, entry.route, ordered, now)
     IN /\ Install(T)
        /\ lastFlush' = [key |-> key, route |-> entry.route, at |-> now,
                         calls |-> arrivals[key],
                         items |-> {x \in Range(T.queue) \cup {T.loops[i].next : i \in 1..Len(T.loops)} :
                                      x.id > nPushed}]
  /\ UNCHANGED <<now, nEvents, done, failed, droppedSourceLogs, pureVars>>

\* processQueue resumes after `await sleep(waitMs)`
SleepEnds(i) ==
  /\ i \in 1..Len(loops)
  /\ loops[i].pc = "sleeping"
  /\ now >= loops[i].wake
  /\ Install(HandOff(Cur, i, loops[i].next, now))
  /\ UNCHANGED <<now, nEvents, done, failed, lastFlush, droppedSourceLogs, pureVars>>

DeliveryReturns(i) ==
  /\ i \in 1..Len(loops)
  /\ loops[i].pc = "delivering"
  /\ done' = done \cup {loops[i].next.id}
  /\ Install(LoopHead(Cur, i, now))
  /\ UNCHANGED <<now, nEvents, failed, lastFlush, droppedSourceLogs, pureVars>>

DeliveryThrows(i) ==
  /\ i \in 1..Len(loops)
  /\ loops[i].pc = "delivering"
  /\ Cardinality(failed) < MaxFailures
  /\ done' = done \cup {loops[i].next.id}
  /\ failed' = failed \cup {loops[i].next.id}
  /\ Install(catchAndContinue(Cur, i, now))
  /\ UNCHANGED <<now, nEvents, lastFlush, droppedSourceLogs, pureVars>>

\* a timer fires when its time has come: the clock does not pass a pending deadline
Deadlines ==
  {mediaGroupBuffer[k].timer[1] : k \in DOMAIN mediaGroupBuffer}
    \cup {timers[n].at : n \in 1..Len(timers)}
    \cup {loops[i].wake : i \in {j \in 1..Len(loops) : loops[j].pc = "sleeping"}}

Tick ==
  /\ now < MaxTime
  /\ \A d \in Deadlines : d > now
  /\ now' = now + 1
  /\ UNCHANGED <<queue, queueBusy, loops, mediaGroupBuffer, nEvents, nPushed,
                 handed, done, failed, arrivals, timers, lastFlush, droppedSourceLogs, pureVars>>

BufferKeys ==
  {<<Routes[r].id, c, g>> : r \in RouteIds, c \in TelegramChats, g \in {1}}

NoFlush == [key |-> <<>>, route |-> 0, at |-> 0, calls |-> [ids |-> <<>>, first |-> 0, last |-> 0],
            items |-> {}]

Init ==
  /\ now = 0
  /\ queue = <<>>
  /\ queueBusy = FALSE
  /\ loops = <<>>
  /\ mediaGroupBuffer = <<>>
  /\ nEvents = 0
  /\ nPushed = 0
  /\ handed = <<>>
  /\ done = {}
  /\ failed = {}
  /\ arrivals = <<>>
  /\ timers = <<>>
  /\ lastFlush = NoFlush
  /\ droppedSourceLogs = <<>>
  /\ LoadIdle
  /\ AttachIdle
  /\ TextIdle
  /\ StreamIdle
  /\ src = [network |-> "telegram", chat_id |-> <<>>, chat_username |-> <<>>]
  /\ msg = [chat |-> [id |-> 1, username |-> <<>>]]
  /\ matchResult = FALSE
  /\ matchPc = "idle"

Next ==
  \/ \E message \in TelegramMessages : onTelegramMessage(message)
  \/ \E ctx \in MaxContexts : onMaxMessage(ctx)
  \/ \E key \in BufferKeys : BatchWindowExpires(key)
  \/ \E i \in 1..Len(loops) : SleepEnds(i)
  \/ \E i \in 1..Len(loops) : DeliveryReturns(i)
  \/ \E i \in 1..Len(loops) : DeliveryThrows(i)
  \/ Tick

Spec == Init /\ [][Next]_vars

\* The environment of the liveness properties: chat 2 sends messages outside albums
\* and parts of one album (route "other"), and the routed MAX chat sends
\* messages of other users (route "back").
FairMessages ==
  {m \in TelegramMessages :
     m.message_id = 1 /\ m.chat.id = 2}

FairContexts == {c \in MaxContexts : c.chatId = 7 /\ c.hasMessage /\ c.sender # MaxBotUserId}

FairNext ==
  \/ \E message \in FairMessages : onTelegramMessage(message)
  \/ \E ctx \in FairContexts : onMaxMessage(ctx)
  \/ \E key \in BufferKeys : BatchWindowExpires(key)
  \/ \E i \in 1..Len(loops) : SleepEnds(i)
  \/ \E i \in 1..Len(loops) : DeliveryReturns(i)
  \/ \E i \in 1..Len(loops) : DeliveryThrows(i)
  \/ Tick

\* a step of the event loop that needs no inbound event: a timer fires, the
\* clock advances, or a call of the Delivery Executor returns or throws
Progress ==
  \/ \E key \in BufferKeys : BatchWindowExpires(key)
  \/ \E i \in 1..Len(loops) : SleepEnds(i)
  \/ \E i \in 1..Len(loops) : DeliveryReturns(i)
  \/ \E i \in 1..Len(loops) : DeliveryThrows(i)
  \/ Tick

\* the scheduling of the event loop: such a step is taken when one is possible
FairSpec == Init /\ [][FairNext]_vars /\ WF_vars(Progress)

\* ------------------------------------------- the matcher as a pure function
Strings == UNION {[1..n -> Chars] : n \in 0..MaxStrLen}

Sources ==
  [network : {"telegram", "max"}, chat_id : {<<>>, <<1>>, <<2>>}, chat_username : Strings]

MatchMessages == [chat : [id : {1, 2}, username : Strings]]

MatchInit ==
  /\ now = 0
  /\ queue = <<>>
  /\ queueBusy = FALSE
  /\ loops = <<>>
  /\ mediaGroupBuffer = <<>>
  /\ nEvents = 0
  /\ nPushed = 0
  /\ handed = <<>>
  /\ done = {}
  /\ failed = {}
  /\ arrivals = <<>>
  /\ timers = <<>>
  /\ lastFlush = NoFlush
  /\ droppedSourceLogs = <<>>
  /\ LoadIdle
  /\ AttachIdle
  /\ TextIdle
  /\ StreamIdle
  /\ src \in Sources
  /\ msg \in MatchMessages
  /\ matchResult = FALSE
  /\ matchPc = "input"

ApplyMatch ==
  /\ matchPc = "input"
  /\ matchResult' = matchTelegramSource(src, msg)
  /\ matchPc' = "done"
  /\ UNCHANGED <<now, queue, queueBusy, loops, mediaGroupBuffer, nEvents, nPushed,
                 handed, done, failed, arrivals, timers, lastFlush, droppedSourceLogs, src, msg,
                 loadVars, attachVars, textVars, stream>>

MatchNext == ApplyMatch

SpecMatch == MatchInit /\ [][MatchNext]_vars

\* ------------------------------------------------- startup as a function
MaxRoutes == 2

EnvValues ==
  {EnvValue(FALSE, FALSE, 0), EnvValue(TRUE, FALSE, 0)}
    \cup {EnvValue(TRUE, TRUE, n) : n \in {-1, 2}}

\* a route document that loads; the documents of the model differ from it in one part
BaseRouteDoc ==
  [id |-> "a", enabled |-> <<>>,
   source |-> [network |-> "telegram", chat_id |-> <<1>>, chat_username |-> <<>>],
   destinations |-> <<[network |-> "max", chat_id |-> <<71>>, user_id |-> <<>>]>>,
   options |-> [repost_delay_ms |-> <<>>, media_group_collect_ms |-> <<>>]]

SourceDocs ==
  [network : {"telegram"}, chat_id : {<<>>, <<1>>},
   chat_username : {<<>>, <<" ">>, <<"@">>, <<"a">>}]
    \cup [network : {"max"}, chat_id : {<<>>, <<7>>}, chat_username : {<<>>}]
    \cup [network : {"vk", ""}, chat_id : {<<7>>}, chat_username : {<<>>}]

DestinationDocs ==
  [network : {"max", "telegram"}, chat_id : {<<>>, <<71>>}, user_id : {<<>>, <<72>>}]
    \cup [network : {"vk"}, chat_id : {<<71>>}, user_id : {<<>>}]

DestinationListDocs ==
  {<<>>} \cup {<<d>> : d \in DestinationDocs}
         \cup {<<BaseRouteDoc.destinations[1], d>> :
                 d \in [network : {"max", "telegram"}, chat_id : {<<71>>}, user_id : {<<72>>}]}

OptionDocs ==
  [repost_delay_ms : {<<>>, <<-1>>, <<0>>, <<2>>},
   media_group_collect_ms : {<<>>, <<-1>>, <<2>>}]

RouteDocs ==
  {[BaseRouteDoc EXCEPT !.id = i] : i \in {"", " ", "a", "b", "index_1"}}
    \cup {[BaseRouteDoc EXCEPT !.enabled = e] : e \in {<<TRUE>>, <<FALSE>>}}
    \cup {[BaseRouteDoc EXCEPT !.source = x] : x \in SourceDocs}
    \cup {[BaseRouteDoc EXCEPT !.destinations = x] : x \in DestinationListDocs}
    \cup {[BaseRouteDoc EXCEPT !.options = x] : x \in OptionDocs}

LoadInit ==
  /\ now = 0
  /\ queue = <<>>
  /\ queueBusy = FALSE
  /\ loops = <<>>
  /\ mediaGroupBuffer = <<>>
  /\ nEvents = 0
  /\ nPushed = 0
  /\ handed = <<>>
  /\ done = {}
  /\ failed = {}
  /\ arrivals = <<>>
  /\ timers = <<>>
  /\ lastFlush = NoFlush
  /\ droppedSourceLogs = <<>>
  /\ src = [network |-> "telegram", chat_id |-> <<>>, chat_username |-> <<>>]
  /\ msg = [chat |-> [id |-> 1, username |-> <<>>]]
  /\ matchResult = FALSE
  /\ matchPc = "idle"
  /\ env \in [delay : EnvValues, collect : EnvValues]
  /\ doc \in UNION {[1..n -> RouteDocs] : n \in 0..MaxRoutes}
  /\ loadResult = LoadFailed
  /\ loadPc = "start"
  /\ AttachIdle
  /\ TextIdle
  /\ StreamIdle

\* the module body up to `const routingConfig = loadRoutingConfig(...)`
Load ==
  /\ loadPc = "start"
  /\ loadResult' = startup(env, doc, DefaultRepostDelayMs, DefaultMediaGroupCollectMs)
  /\ loadPc' = "done"
  /\ UNCHANGED <<now, queue, queueBusy, loops, mediaGroupBuffer, nEvents, nPushed,
                 handed, done, failed, arrivals, timers, lastFlush, droppedSourceLogs,
                 matchVars, env, doc, attachVars, textVars, stream>>

LoadNext == Load

SpecLoad == LoadInit /\ [][LoadNext]_vars

\* ------------------------------------- the attachment cascade as a process
Documents ==
  {[state |-> "none", mime |-> "other", file_name |-> "other"]}
    \cup [state : {"bad", "ok"}, mime : {"video/", "audio/", "other"},
          file_name : {".mp4", ".mp3", "other"}]

MessageLikes(origin) ==
  [origin : {origin},
   photo : UNION {[1..n -> {"bad", "ok"}] : n \in 0..MaxPhotos},
   video : FieldStates, animation : FieldStates, audio : FieldStates,
   voice : FieldStates, video_note : FieldStates,
   document : Documents]

\* the message-like objects of the cascade: no media, a photo in two sizes, a
\* photo without a usable file_id, a video, an audio with a document
Shapes(origin) ==
  {NoMedia(origin),
   [NoMedia(origin) EXCEPT !.photo = <<"ok", "ok">>],
   [NoMedia(origin) EXCEPT !.photo = <<"bad">>],
   [NoMedia(origin) EXCEPT !.video = "ok"],
   [NoMedia(origin) EXCEPT !.audio = "ok",
                           !.document = [state |-> "ok", mime |-> "other", file_name |-> "other"]]}

Optional(S) == {<<>>} \cup {<<x>> : x \in S}

BridgeAndOthersIdle ==
  /\ now = 0
  /\ queue = <<>>
  /\ queueBusy = FALSE
  /\ loops = <<>>
  /\ mediaGroupBuffer = <<>>
  /\ nEvents = 0
  /\ nPushed = 0
  /\ handed = <<>>
  /\ done = {}
  /\ failed = {}
  /\ arrivals = <<>>
  /\ timers = <<>>
  /\ lastFlush = NoFlush
  /\ droppedSourceLogs = <<>>
  /\ src = [network |-> "telegram", chat_id |-> <<>>, chat_username |-> <<>>]
  /\ msg = [chat |-> [id |-> 1, username |-> <<>>]]
  /\ matchResult = FALSE
  /\ matchPc = "idle"
  /\ LoadIdle

bridgeVars ==
  <<now, queue, queueBusy, loops, mediaGroupBuffer, nEvents, nPushed, handed, done,
    failed, arrivals, timers, lastFlush, droppedSourceLogs>>

AttachInit ==
  /\ BridgeAndOthersIdle
  /\ tgMessage \in [own : Shapes("message"),
                    reply_to_message : Optional(Shapes("reply_to_message")),
                    external_reply : Optional(Shapes("external_reply"))]
  /\ att = [NoCascade EXCEPT !.pc = "start"]
  /\ TextIdle
  /\ StreamIdle

\* buildAttachmentsFromTelegram up to its first await
AttachStart ==
  /\ att.pc = "start"
  /\ att' = beginCascade(tgMessage)
  /\ UNCHANGED <<bridgeVars, matchVars, loadVars, tgMessage, textVars, stream>>

\* `await uploadMediaCandidate(candidate)` returns the attachment
UploadSucceeds ==
  /\ att.pc = "uploading"
  /\ att' = onUploadSuccess(att, currentCandidate(att).fileId)
  /\ UNCHANGED <<bridgeVars, matchVars, loadVars, tgMessage, textVars, stream>>

\* `await uploadMediaCandidate(candidate)` throws, with or without "file is too big"
UploadFails(tooBig) ==
  /\ att.pc = "uploading"
  /\ att' = onUploadError(att, tooBig)
  /\ UNCHANGED <<bridgeVars, matchVars, loadVars, tgMessage, textVars, stream>>

AttachNext ==
  \/ AttachStart
  \/ UploadSucceeds
  \/ \E tooBig \in BOOLEAN : UploadFails(tooBig)

SpecAttach == AttachInit /\ [][AttachNext]_vars

\* ------------------------------------ the candidates of one message-like
CandidatesInit ==
  /\ BridgeAndOthersIdle
  /\ tgMessage \in [own : MessageLikes("message"), reply_to_message : {<<>>},
                    external_reply : {<<>>}]
  /\ att = [NoCascade EXCEPT !.pc = "start"]
  /\ TextIdle
  /\ StreamIdle

CandidatesNext == AttachStart

SpecCandidates == CandidatesInit /\ [][CandidatesNext]_vars

\* ------------------------------------------- the entity tree of one text
MaxSpans == 3

AllButTextIdle ==
  /\ BridgeAndOthersIdle
  /\ AttachIdle
  /\ StreamIdle

\* spans of every shape: before the text, empty, inside the text, beyond its end
TreeSpans ==
  [type : {"bold"}, offset : -1..(MaxTextLen - 1), length : 0..MaxTextLen]

TreeInit ==
  /\ AllButTextIdle
  /\ fwd = NoForward
  /\ rnd \in [text : {[i \in 1..MaxTextLen |-> "a"]},
              entities : UNION {[1..n -> TreeSpans] : n \in 0..MaxSpans},
              tree : {<<>>}, markdown : {<<>>}, pc : {"start"}]

\* `const root = buildEntityTree(text.length, entities)`
BuildTree ==
  /\ rnd.pc = "start"
  /\ rnd' = [rnd EXCEPT !.tree = buildEntityTree(Len(rnd.text), rnd.entities),
                        !.pc = "built"]
  /\ UNCHANGED <<bridgeVars, matchVars, loadVars, attachVars, fwd, stream>>

TreeNext == BuildTree

SpecTree == TreeInit /\ [][TreeNext]_vars

\* --------------------------------------------- the markdown of one text
MaxWrapped == 2

TextChars == {"a", "*"}

Texts == UNION {[1..n -> TextChars] : n \in 0..MaxTextLen}

\* the spans that lie in a text of the greatest length
RenderSpans ==
  {e \in [type : {"bold", "italic"}, offset : 0..(MaxTextLen - 1), length : 1..MaxTextLen] :
     e.offset + e.length <= MaxTextLen}

RenderInit ==
  /\ AllButTextIdle
  /\ fwd = NoForward
  /\ rnd \in [text : Texts,
              entities : UNION {[1..n -> RenderSpans] : n \in 0..MaxWrapped},
              tree : {<<>>}, markdown : {<<>>}, pc : {"start"}]

\* formatTelegramTextAsMarkdown; the tree of the text is kept beside the result
Format ==
  /\ rnd.pc = "start"
  /\ rnd' = [rnd EXCEPT !.tree = buildEntityTree(Len(rnd.text), rnd.entities),
                        !.markdown = formatTelegramTextAsMarkdown(rnd.text, rnd.entities),
                        !.pc = "done"]
  /\ UNCHANGED <<bridgeVars, matchVars, loadVars, attachVars, fwd, stream>>

RenderNext == Format

SpecRender == RenderInit /\ [][RenderNext]_vars

\* ------------------------------------------------- the Delivery Executor
\* A message of an item carries the result of extractTextAndEntities on it
\* (text), the text of the replied message chooseTextSource picks (repost),
\* the class of the result buildAttachmentsFromTelegram gives for it (upload)
\* and whether getTelegramLinkCandidate finds a link for it (linked). A call
\* of a send capability is kept with the way it ended.
MaxDestinations == 2

\* the two warnings as texts: a sentence that ends with a full stop
WarningChars(warningText) ==
  CASE warningText = WarningTooBig -> <<"b", ".">>
    [] warningText = WarningUnavailable -> <<"u", ".">>
    [] OTHER -> <<>>

\* the attachment the upload of the media of a message gives
AttachmentOf(message) == <<"attachment", message.message_id>>

\* the value buildAttachmentsFromTelegram returns for the message
buildAttachmentsFromTelegram(message) ==
  CASE message.upload = "ok" -> [attachments |-> <<AttachmentOf(message)>>, warningText |-> ""]
    [] message.upload = "too_big" -> [attachments |-> <<>>, warningText |-> WarningTooBig]
    [] message.upload = "unavailable" -> [attachments |-> <<>>, warningText |-> WarningUnavailable]
    [] OTHER -> NoAttachments

\* `tg: [name](url)`
FooterText == <<"t", "g", ":">>

getTelegramFooter(message, route) ==
  IF ~route.include_telegram_footer THEN <<>>
  ELSE IF ~message.linked THEN <<>>
  ELSE FooterText

\* parts.join('\n\n')
RECURSIVE JoinParts(_, _)
JoinParts(parts, separator) ==
  IF parts = <<>> THEN <<>>
  ELSE IF Len(parts) = 1 THEN parts[1]
  ELSE parts[1] \o separator \o JoinParts(Tail(parts), separator)

\* `if (x) parts.push(x)`
PartIf(part) == IF part # <<>> THEN <<part>> ELSE <<>>

\* the warning is not put in the text
getTelegramMessageTextWithoutWarning(message, route, warningText) ==
  JoinParts(PartIf(formatTelegramTextAsMarkdown(message.text, <<>>))
              \o PartIf(formatTelegramTextAsMarkdown(message.repost, <<>>))
              \o PartIf(getTelegramFooter(message, route)),
            <<"\n", "\n">>)

getTelegramMessageText(message, route, warningText) ==
  JoinParts(PartIf(formatTelegramTextAsMarkdown(message.text, <<>>))
              \o PartIf(formatTelegramTextAsMarkdown(message.repost, <<>>))
              \o PartIf(escapeMarkdownText(warningText))
              \o PartIf(getTelegramFooter(message, route)),
            <<"\n", "\n">>)

\* ordered.find((item) => extractTextAndEntities(item).text) || ordered[0]
groupAnchor(ordered) ==
  LET HasText(message) == message.text # <<>>
      withText == SelectSeq(ordered, HasText)
  IN IF withText # <<>> THEN withText[1] ELSE ordered[1]

\* only the attachments of the anchor are sent
attachmentsOfAnchor(ordered) == buildAttachmentsFromTelegram(groupAnchor(ordered)).attachments

\* the array `attachments` after the loop of forwardTelegramGroup
RECURSIVE groupAttachments(_)
groupAttachments(ordered) ==
  IF ordered = <<>> THEN <<>>
  ELSE buildAttachmentsFromTelegram(Head(ordered)).attachments \o groupAttachments(Tail(ordered))

\* Array.from(warningSet): the distinct warnings in the order they were added
RECURSIVE groupWarnings(_, _)
groupWarnings(ordered, seen) ==
  IF ordered = <<>> THEN seen
  ELSE LET w == buildAttachmentsFromTelegram(Head(ordered)).warningText
       IN groupWarnings(Tail(ordered),
                        IF w = "" \/ w \in Range(seen) THEN seen ELSE Append(seen, w))

\* warningSet.size ? Array.from(warningSet).join('\n') : ''
groupWarningText(ordered) ==
  LET warnings == groupWarnings(ordered, <<>>)
  IN JoinParts([n \in 1..Len(warnings) |-> WarningChars(warnings[n])], <<"\n">>)

\* the branch sendToDestination takes for the destination
sendBranch(destination) ==
  IF destination.network = "max"
  THEN IF destination.chat_id # <<>> THEN "sendMessageToChat" ELSE "sendMessageToUser"
  ELSE IF destination.network = "telegram"
  THEN "telegram.sendMessage"
  ELSE "Unsupported destination network"

\* the call sendToDestination makes, and how it ended
sendToDestination(destination, text, attachments, outcome) ==
  LET safeText == IF text # <<>> THEN text ELSE <<" ">>
  IN IF destination.network = "max"
     THEN [api |-> IF destination.chat_id # <<>> THEN "sendMessageToChat" ELSE "sendMessageToUser",
           target |-> IF destination.chat_id # <<>> THEN destination.chat_id
                      ELSE destination.user_id,
           text |-> safeText, attachments |-> attachments, outcome |-> outcome]
     ELSE [api |-> "telegram.sendMessage", target |-> destination.chat_id,
           text |-> safeText, attachments |-> <<>>, outcome |-> outcome]

\* the forward function up to sendToRouteDestinations
beginForward(f) ==
  IF f.kind = "telegram_single"
  THEN LET message == f.messages[1]
           built == buildAttachmentsFromTelegram(message)
       IN [f EXCEPT !.text = getTelegramMessageText(message, f.route,
                                                    WarningChars(built.warningText)),
                    !.attachments = built.attachments,
                    !.pc = "sending"]
  ELSE IF f.kind = "telegram_group"
  THEN LET ordered == SortByMessageId(f.messages)
       IN [f EXCEPT !.text = getTelegramMessageText(groupAnchor(ordered), f.route,
                                                    groupWarningText(ordered)),
                    !.attachments = groupAttachments(ordered),
                    !.pc = "sending"]
  ELSE [f EXCEPT !.text = f.messages[1].text, !.attachments = <<>>, !.pc = "sending"]

\* the destination of the running iteration of `for (const destination of route.destinations)`
currentDestination(f) == f.route.destinations[Len(f.calls) + 1]

\* `await sendToDestination(...)` returned: the loop goes on
afterSend(f) ==
  LET calls == Append(f.calls,
                      sendToDestination(currentDestination(f), f.text, f.attachments, "ok"))
  IN [f EXCEPT !.calls = calls,
               !.pc = IF Len(calls) = Len(f.route.destinations) THEN "returned" ELSE "sending"]

\* the error of a send is caught inside the loop
afterSendErrorContinue(f) ==
  LET calls == Append(f.calls,
                      sendToDestination(currentDestination(f), f.text, f.attachments, "threw"))
  IN [f EXCEPT !.calls = calls,
               !.pc = IF Len(calls) = Len(f.route.destinations) THEN "returned" ELSE "sending"]

\* `await sendToDestination(...)` threw: the error leaves the forward function
afterSendError(f) ==
  [f EXCEPT !.calls = Append(@, sendToDestination(currentDestination(f), f.text,
                                                  f.attachments, "threw")),
            !.pc = "threw"]

ForwardDestinations ==
  {[network |-> "max", chat_id |-> <<71>>, user_id |-> <<>>],
   [network |-> "max", chat_id |-> <<>>, user_id |-> <<72>>],
   [network |-> "telegram", chat_id |-> <<3>>, user_id |-> <<>>]}

ForwardRoutes ==
  [destinations : UNION {[1..n -> ForwardDestinations] : n \in 1..MaxDestinations},
   include_telegram_footer : BOOLEAN]

\* the text of message n: an asterisk and n letters
MessageText(n) == <<"*">> \o [i \in 1..n |-> "a"]

MessageShapes ==
  [text : BOOLEAN, repost : {FALSE}, upload : {"none", "ok", "too_big", "unavailable"},
   linked : {TRUE}]
    \cup {[text |-> TRUE, repost |-> TRUE, upload |-> "none", linked |-> TRUE],
          [text |-> FALSE, repost |-> FALSE, upload |-> "ok", linked |-> FALSE]}

ForwardMessage(n, shape) ==
  [message_id |-> n,
   text |-> IF shape.text THEN MessageText(n) ELSE <<>>,
   repost |-> IF shape.repost THEN <<"r", ".">> ELSE <<>>,
   upload |-> shape.upload,
   linked |-> shape.linked]

\* a part of an album is a message with media
AlbumShapes == {shape \in MessageShapes : shape.upload # "none"}

\* the parts 1..n of an album, in ascending or in descending order
Albums ==
  UNION {{[i \in 1..n |-> ForwardMessage(IF up THEN i ELSE n + 1 - i, shapes[i])] :
            shapes \in [1..n -> AlbumShapes], up \in BOOLEAN} : n \in 1..MaxMsgId}

MaxPayloads == {<<ForwardMessage(1, [text |-> t, repost |-> FALSE, upload |-> "none",
                                     linked |-> FALSE])>> : t \in BOOLEAN}

ForwardInit ==
  /\ AllButTextIdle
  /\ rnd = NoRender
  /\ \E route \in ForwardRoutes :
       \/ \E shape \in MessageShapes :
            fwd = [NoForward EXCEPT !.kind = "telegram_single", !.route = route,
                                    !.messages = <<ForwardMessage(1, shape)>>,
                                    !.pc = "start"]
       \/ \E messages \in Albums :
            fwd = [NoForward EXCEPT !.kind = "telegram_group", !.route = route,
                                    !.messages = messages, !.pc = "start"]
       \/ \E payload \in MaxPayloads :
            fwd = [NoForward EXCEPT !.kind = "max_single", !.route = route,
                                    !.messages = payload, !.pc = "start"]

\* forwardTelegramSingle, forwardTelegramGroup or forwardMaxSingle up to the sends
ForwardStart ==
  /\ fwd.pc = "start"
  /\ fwd' = beginForward(fwd)
  /\ UNCHANGED <<bridgeVars, matchVars, loadVars, attachVars, rnd, stream>>

SendReturns ==
  /\ fwd.pc = "sending"
  /\ fwd' = afterSend(fwd)
  /\ UNCHANGED <<bridgeVars, matchVars, loadVars, attachVars, rnd, stream>>

SendThrows ==
  /\ fwd.pc = "sending"
  /\ fwd' = afterSendError(fwd)
  /\ UNCHANGED <<bridgeVars, matchVars, loadVars, attachVars, rnd, stream>>

ForwardNext ==
  \/ ForwardStart
  \/ SendReturns
  \/ SendThrows

SpecForward == ForwardInit /\ [][ForwardNext]_vars

\* ------------------------------------- the batch buffer under a stream
\* The parts of one album of chat 1 arrive again and again. Time is counted
\* down: a timer holds the time left until it fires, and the passing of one
\* unit of time takes one from every pending timer. The batch the expiry of a
\* window enqueues is kept as the latest batch of its key.
StreamIds == {1, 2}

StreamParts ==
  {m \in TelegramMessages :
     m.media_group_id # 0 /\ m.chat.id = 1 /\ m.message_id \in StreamIds}

StreamKeys ==
  UNION {{BufferKey(r, m) : r \in Range(findTelegramRoutes(m))} : m \in StreamParts}

\* the loop of onTelegramMessage over the routes of an album part
collectStream(st, message) ==
  LET S == dispatchTelegram([buf |-> st.buffer,
                             arr |-> [k \in DOMAIN st.buffer |->
                                        [ids |-> <<>>, first |-> 0, last |-> 0]],
                             timers |-> st.timers],
                            findTelegramRoutes(message), message, 0)
  IN [st EXCEPT !.buffer = S.buf, !.timers = S.timers]

\* the entry is deleted and no batch is enqueued
expireEntryWithoutEnqueue(st, key) ==
  [st EXCEPT !.buffer = [k \in DOMAIN st.buffer \ {key} |-> st.buffer[k]],
             !.timers = clearTimeout(@, key, st.buffer[key].timer)]

\* the setTimeout callback of collectMediaGroup
expireEntry(st, key) ==
  [st EXCEPT !.buffer = [k \in DOMAIN st.buffer \ {key} |-> st.buffer[k]],
             !.timers = clearTimeout(@, key, st.buffer[key].timer),
             !.batches = [k \in DOMAIN st.batches \cup {key} |->
                            IF k = key THEN SortByMessageId(st.buffer[key].messages)
                            ELSE st.batches[k]]]

\* one unit of time passes for every pending timer
passTime(st) ==
  [st EXCEPT !.buffer = [k \in DOMAIN st.buffer |->
                           [st.buffer[k] EXCEPT !.timer = <<@[1] - 1>>]],
             !.timers = [n \in 1..Len(st.timers) |->
                           [st.timers[n] EXCEPT !.at = @ - 1]]]

AllButStreamIdle ==
  /\ BridgeAndOthersIdle
  /\ AttachIdle
  /\ TextIdle

StreamInit ==
  /\ AllButStreamIdle
  /\ stream = [NoStream EXCEPT !.pc = "open"]

StreamUnchanged == UNCHANGED <<bridgeVars, matchVars, loadVars, attachVars, textVars>>

\* onTelegramMessage for a part of the album
StreamEvent(message) ==
  /\ stream.pc = "open"
  /\ stream' = collectStream(stream, message)
  /\ StreamUnchanged

\* the last part of the album has arrived
StreamEnds ==
  /\ stream.pc = "open"
  /\ stream' = [stream EXCEPT !.pc = "ended"]
  /\ StreamUnchanged

\* the clock does not pass a timer that is due
StreamTick ==
  /\ stream.timers # <<>>
  /\ \A n \in 1..Len(stream.timers) : stream.timers[n].at > 0
  /\ stream' = passTime(stream)
  /\ StreamUnchanged

StreamExpires(key) ==
  /\ key \in DOMAIN stream.buffer
  /\ stream.buffer[key].timer[1] <= 0
  /\ [key |-> key, at |-> stream.buffer[key].timer[1]] \in Range(stream.timers)
  /\ stream' = expireEntry(stream, key)
  /\ StreamUnchanged

StreamNext ==
  \/ \E message \in StreamParts : StreamEvent(message)
  \/ StreamEnds
  \/ StreamTick
  \/ \E key \in StreamKeys : StreamExpires(key)

\* timers fire and time passes
StreamProgress ==
  \/ StreamTick
  \/ \E key \in StreamKeys : StreamExpires(key)

FairStream == StreamInit /\ [][StreamNext]_vars /\ WF_vars(StreamProgress)

\* ------------------------------------------------------------- properties
Delivering == {loops[i].next : i \in {j \in 1..Len(loops) : loops[j].pc = "delivering"}}

Sleeping == {i \in 1..Len(loops) : loops[i].pc = "sleeping"}

QueueIds == {queue[n].id : n \in 1..Len(queue)}

\* the items created by the step: those whose id is above the old counter
NewItems ==
  {x \in Range(queue') \cup {loops'[i].next : i \in 1..Len(loops')} : x.id > nPushed}

\* C1: items are handed to the Delivery Executor in non-decreasing runAt order
\* across the whole queue: while an item is being delivered, no item waiting in
\* the queue has a smaller runAt (an item enqueued with a short delay while the
\* worker waits on a long one is delivered first).
C1_HandedInRunAtOrder ==
  \A x \in Delivering : \A n \in 1..Len(queue) : queue[n].runAt >= x.runAt

\* C2: delivery is strictly serialized: at most one processQueue loop is active,
\* it is active exactly when queueBusy is set, at most one item is being
\* delivered, and a processQueue call made while queueBusy is set changes nothing.
C2_StrictlySerialized ==
  /\ Len(loops) <= 1
  /\ queueBusy <=> Len(loops) = 1
  /\ Cardinality({i \in 1..Len(loops) : loops[i].pc = "delivering"}) <= 1
  /\ queueBusy => processQueue(Cur, now) = Cur

\* an item is in flight while another waits in the queue and an album is being collected
C2_Witness ==
  /\ Delivering # {}
  /\ queue # <<>>
  /\ DOMAIN mediaGroupBuffer # {}

\* C3: no item is handed over before its runAt; the runAt of a new item is the
\* time of its enqueue call (for a batch, the expiry of its window) plus the
\* delay of its route; and the item at the head of the queue while the worker
\* sleeps is the item the sleep was computed from, so the shift removes that item.
C3_NotBeforeRunAt ==
  [][/\ \A x \in NewItems : x.runAt = now + getRouteDelayMs(x.route)
     /\ \A i \in 1..Len(loops') :
          loops'[i].pc = "delivering" => loops'[i].wake >= loops'[i].next.runAt
     /\ \A i \in Sleeping : queue # <<>> /\ queue[1] = loops[i].next
     /\ \A i \in Sleeping :
          (i \in 1..Len(loops') /\ loops'[i].pc = "delivering")
            => /\ loops'[i].next = loops[i].next
               /\ queue' = Tail(queue)
               /\ now >= loops[i].next.runAt]_vars

\* an item with a positive delay is in flight, and an item pushed during its sleep waits
C3_Witness ==
  \E x \in Delivering :
     /\ x.runAt > 0
     /\ getRouteDelayMs(x.route) > 0
     /\ \E n \in 1..Len(queue) : queue[n].id > x.id

\* C4: every item pushed is handed to the Delivery Executor at most once: an
\* item that was handed over is not in the queue again, whether its delivery
\* returned or threw.
C4_AtMostOnce ==
  /\ Len(handed) = nPushed
  /\ \A id \in 1..nPushed :
       /\ handed[id] <= 1
       /\ handed[id] = 1 <=> id \notin QueueIds
       /\ Cardinality({n \in 1..Len(queue) : queue[n].id = id}) <= 1
  /\ done \subseteq {id \in 1..nPushed : handed[id] = 1}
  /\ failed \subseteq done

\* one delivery threw, another returned, and the worker has gone idle
C4_Witness ==
  /\ failed # {}
  /\ done \ failed # {}
  /\ loops = <<>>
  /\ \A id \in 1..nPushed : handed[id] = 1

\* every event of the environment of FairSpec matches one route, so an event
\* creates at most one item
ItemIds == 1..MaxEvents

DeliveringIds == {x.id : x \in Delivering}

\* C5: every item pushed onto the queue is eventually handed to the Delivery
\* Executor and then done, and no state has a non-empty queue without an active
\* worker (the worker clears queueBusy in the same step that sees the empty queue).
C5_EveryItemIsDelivered ==
  /\ [](nPushed \in {0} \cup ItemIds)
  /\ [](queue # <<>> => queueBusy /\ Len(loops) = 1)
  /\ \A id \in ItemIds : (id \in QueueIds) ~> (id \in DeliveringIds)
  /\ \A id \in ItemIds : (id \in DeliveringIds) ~> (id \in done)

\* the worker went idle and was started again by a later enqueue call, and
\* every item pushed has been delivered
C5_Witness ==
  /\ ~queueBusy
  /\ nEvents >= 2
  /\ nPushed >= 2
  /\ done = 1..nPushed
  /\ \E id \in done : queue = <<>> /\ now > 0

\* C6: a delivery that throws is caught inside the worker iteration: the failed
\* item is gone from the queue and is not handed over again, the worker stays
\* active when items wait, no waiting item is lost, and every item that waits
\* after a failure is still delivered.
C6_FailureIsContained ==
  /\ [][\A f \in failed' \ failed :
          /\ f \notin QueueIds'
          /\ f \notin DeliveringIds'
          /\ handed'[f] = 1
          /\ queue # <<>> => queueBusy' /\ Len(loops') = 1
          /\ \A x \in Range(queue) : x \in Range(queue') \/ x \in Delivering']_vars
  /\ \A id \in ItemIds : (failed # {} /\ id \in QueueIds) ~> (id \in done)

\* after a delivery threw, the worker is delivering another item
C6_Witness ==
  /\ failed # {}
  /\ \E x \in Delivering : x.id \notin failed

MessageIds(messages) == [n \in 1..Len(messages) |-> messages[n].message_id]

\* C7: the events of one (route, chat id, album id) key that arrive while its
\* window is open end in exactly one batch item, enqueued when the window
\* expires after the last of them; its payload holds every distinct event of
\* the sequence exactly once, in ascending message_id order.
C7_OneSortedBatch ==
  lastFlush.key # <<>> =>
    /\ Cardinality(lastFlush.items) = 1
    /\ \A x \in lastFlush.items :
         /\ x.kind = "telegram_group"
         /\ x.route = lastFlush.route
         /\ Range(MessageIds(x.payload)) = Range(lastFlush.calls.ids)
         /\ \A n \in 1..(Len(x.payload) - 1) :
              x.payload[n].message_id < x.payload[n + 1].message_id
         /\ \A n \in 1..Len(x.payload) :
              /\ x.payload[n].chat.id = lastFlush.key[2]
              /\ x.payload[n].media_group_id = lastFlush.key[3]
    /\ lastFlush.key[1] = Routes[lastFlush.route].id
    /\ lastFlush.at >= lastFlush.calls.last + getRouteMediaGroupCollectMs(lastFlush.route)

\* two parts of an album arrived at different times, the later message_id
\* first, and their window has expired
C7_Witness ==
  /\ lastFlush.calls.ids = <<2, 1>>
  /\ lastFlush.calls.last > lastFlush.calls.first

\* C8: a collect call with a message_id the open entry already holds leaves the
\* messages of the entry unchanged; every call restarts the timer, so the
\* timer of an open entry is due one window after the most recent call, and
\* the flush happens at that time.
C8_IdempotentButTimerRestarts ==
  /\ \A k \in DOMAIN mediaGroupBuffer :
       LET e == mediaGroupBuffer[k]
           ms == getRouteMediaGroupCollectMs(e.route)
       IN /\ Cardinality(Range(MessageIds(e.messages))) = Len(e.messages)
          /\ Range(MessageIds(e.messages)) = Range(arrivals[k].ids)
          /\ e.timer = <<arrivals[k].last + ms>>
          /\ \A n \in 1..Len(e.messages) :
               LET again == collectMediaGroup(Cur, e.route, e.messages[n], now)
               IN /\ again.buf[k].messages = e.messages
                  /\ again.buf[k].timer = <<now + ms>>
                  /\ again.queue = queue
  /\ lastFlush.key # <<>> =>
       lastFlush.at = lastFlush.calls.last + getRouteMediaGroupCollectMs(lastFlush.route)

\* an open entry has taken two calls with the same message_id at different times
C8_Witness ==
  \E k \in DOMAIN mediaGroupBuffer :
     /\ Len(arrivals[k].ids) = 2
     /\ Len(mediaGroupBuffer[k].messages) = 1
     /\ arrivals[k].last > arrivals[k].first
     /\ now > arrivals[k].first

\* C9: a Telegram event outside an album creates one item for every enabled
\* route whose source matches it and no other item; the runAt of each item is
\* the time of the event plus the delay of its own route; a disabled route
\* creates nothing.
C9_FanOut ==
  [][\A m \in TelegramMessages :
       (m.media_group_id = 0 /\ onTelegramMessage(m)) =>
          LET matching == {r \in RouteIds : /\ Routes[r].enabled
                                            /\ matchTelegramSource(Routes[r].source, m)}
          IN /\ nPushed' = nPushed + Cardinality(matching)
             /\ Cardinality(NewItems) = Cardinality(matching)
             /\ \A r \in matching :
                  \E x \in NewItems : /\ x.route = r
                                      /\ x.kind = "telegram_single"
                                      /\ x.payload = <<m>>
                                      /\ x.runAt = now + getRouteDelayMs(r)
             /\ \A x \in NewItems : x.route \in matching
             /\ mediaGroupBuffer' = mediaGroupBuffer]_vars

\* one event of chat 1 has created an item for each of its two enabled routes
\* and none for the disabled route with the same source
C9_Witness ==
  /\ nEvents = 1
  /\ nPushed = 2
  /\ \E x, y \in Range(queue) \cup Delivering :
       /\ x.route = 1
       /\ y.route = 2
       /\ x.payload = y.payload
       /\ x.kind = "telegram_single"
       /\ x.runAt = y.runAt + 2
  /\ \E r \in RouteIds :
       /\ ~Routes[r].enabled
       /\ Routes[r].source = Routes[1].source

IdConfigured == src.chat_id # <<>>

UsernameConfigured == Trim(src.chat_username) # <<>>

IdMatches == src.chat_id = <<msg.chat.id>>

\* the usernames are equal once one leading "@" is removed and case is ignored
UsernameMatchesAsClaimed ==
  ToLowerCase(StripSigil(src.chat_username)) = ToLowerCase(StripSigil(msg.chat.username))

\* ... and the surrounding whitespace left after that is removed as well
UsernameMatchesTrimmed ==
  ToLowerCase(Trim(StripSigil(src.chat_username)))
    = ToLowerCase(Trim(StripSigil(msg.chat.username)))

\* C10 as stated: the matcher is true exactly when the network is telegram, a
\* constraint is configured and every configured constraint matches, usernames
\* being compared case-insensitively after removing one leading "@".
C10_AsStated ==
  matchPc = "done" =>
    (matchResult <=> /\ src.network = "telegram"
                     /\ IdConfigured \/ UsernameConfigured
                     /\ IdConfigured => IdMatches
                     /\ UsernameConfigured => UsernameMatchesAsClaimed)

\* C10: the matcher is true exactly when the network is telegram, a constraint
\* is configured and every configured constraint matches, usernames being
\* compared case-insensitively after removing one leading "@" and then the
\* surrounding whitespace; a source with both constraints does not match a
\* message that satisfies only one of them.
C10_MatchesExactlyWhen ==
  matchPc = "done" =>
    /\ matchResult <=> /\ src.network = "telegram"
                       /\ IdConfigured \/ UsernameConfigured
                       /\ IdConfigured => IdMatches
                       /\ UsernameConfigured => UsernameMatchesTrimmed
    /\ (IdConfigured /\ UsernameConfigured /\ ~(IdMatches /\ UsernameMatchesTrimmed))
         => ~matchResult

\* a source with both constraints matched a message whose username equals the
\* configured one only once the surrounding whitespace is removed
C10_Witness ==
  /\ matchPc = "done"
  /\ matchResult
  /\ IdConfigured
  /\ UsernameConfigured
  /\ ~UsernameMatchesAsClaimed

\* no enabled route has a source that matches the chat of the message
FromArbitraryChat(m) ==
  \A r \in RouteIds : Routes[r].enabled => ~matchTelegramSource(Routes[r].source, m)

ArbitraryMessages == {m \in TelegramMessages : FromArbitraryChat(m)}

\* the Telegram messages held by an item of the queue
HeldMessages(x) == IF x.kind \in {"telegram_single", "telegram_group"} THEN Range(x.payload) ELSE {}

\* C11: a Telegram event whose chat matches the source of no enabled route
\* leaves the queue, the worker and the album buffer unchanged, and no message
\* of such a chat is ever held by the buffer, by the queue or by the Delivery
\* Executor.
C11_ArbitraryChatsIgnored ==
  /\ [][\/ /\ queue' = queue
             /\ mediaGroupBuffer' = mediaGroupBuffer
             /\ loops' = loops
             /\ queueBusy' = queueBusy
             /\ nPushed' = nPushed
          \/ \A m \in ArbitraryMessages : ~onTelegramMessage(m)]_vars
  /\ [](/\ \A x \in Range(queue) \cup Delivering :
             \A m \in HeldMessages(x) : ~FromArbitraryChat(m)
        /\ \A k \in DOMAIN mediaGroupBuffer :
             \A m \in Range(mediaGroupBuffer[k].messages) : ~FromArbitraryChat(m))

\* an event of chat 3, which no route names, was handled (its log line was
\* written) while an item waits in the queue
C11_Witness ==
  /\ 3 \in DOMAIN droppedSourceLogs
  /\ FromArbitraryChat([chat |-> TelegramChat(3), message_id |-> 1, media_group_id |-> 0])
  /\ nPushed = 1
  /\ queue # <<>>

Loaded == loadPc = "done" /\ loadResult.ok

Rejected == loadPc = "done" /\ ~loadResult.ok

DocRoutes == {doc[i] : i \in 1..Len(doc)}

LoadedRoutes == {loadResult.routes[i] : i \in 1..Len(loadResult.routes)}

IsNegative(raw) == raw.isSet /\ raw.isInt /\ raw.value < 0

\* the route table of the bridge is accepted by validateRoute
RouteTableLoads ==
  \A r \in RouteIds :
     /\ validateRouteOk(Routes[r], r - 1)
     /\ getRouteDelayMs(r) >= 0
     /\ getRouteMediaGroupCollectMs(r) >= 0

\* C12: every route of a loaded table has an effective delay >= 0 and an
\* effective collect window >= 0, from its own options or from the defaults;
\* a negative value in a route's options or in a default makes startup fail;
\* the route table of the bridge model is one that loads.
C12_EffectiveOptionsNonNegative ==
  /\ Loaded =>
       \A route \in LoadedRoutes :
          /\ routeDelayMs(route, loadResult.defaultRepostDelayMs) >= 0
          /\ routeMediaGroupCollectMs(route, loadResult.defaultMediaGroupCollectMs) >= 0
  /\ (/\ loadPc = "done"
      /\ \/ IsNegative(env.delay)
         \/ IsNegative(env.collect)
         \/ \E route \in DocRoutes :
               \/ route.options.repost_delay_ms \in {<<-1>>}
               \/ route.options.media_group_collect_ms \in {<<-1>>}) => ~loadResult.ok
  /\ RouteTableLoads

\* a table is loaded in which one route takes its delay from its options and
\* another from a default set in the environment
C12_Witness ==
  /\ Loaded
  /\ env.delay = EnvValue(TRUE, TRUE, 2)
  /\ \E x, y \in LoadedRoutes :
       /\ x.options.repost_delay_ms = <<0>>
       /\ y.options.repost_delay_ms = <<>>
       /\ routeDelayMs(x, loadResult.defaultRepostDelayMs) = 0
       /\ routeDelayMs(y, loadResult.defaultRepostDelayMs) = 2

\* the source names neither a numeric chat id nor a non-blank username
NoConstraint(source) == source.chat_id = <<>> /\ Trim(source.chat_username) = <<>>

EnvUnset == env = [delay |-> EnvValue(FALSE, FALSE, 0), collect |-> EnvValue(FALSE, FALSE, 0)]

\* C13: a document with a route whose source has no identity constraint does
\* not load; and whether or not it was loaded, such a source matches no
\* Telegram message and no MAX chat.
C13_NoConstraintNeverRelays ==
  /\ (loadPc = "done" /\ \E route \in DocRoutes : NoConstraint(route.source))
       => ~loadResult.ok
  /\ Loaded => \A route \in LoadedRoutes : ~NoConstraint(route.source)
  /\ \A route \in DocRoutes :
       NoConstraint(route.source) =>
          /\ \A m \in TelegramMessages : ~matchTelegramSource(route.source, m)
          /\ \A c \in MaxContexts : ~matchMaxSource(route.source, c.chatId)

\* startup has rejected a document whose only fault is a Telegram source with a
\* blank username and no chat id
C13_Witness ==
  /\ Rejected
  /\ EnvUnset
  /\ Len(doc) = 1
  /\ doc[1].source = [network |-> "telegram", chat_id |-> <<>>, chat_username |-> <<" ">>]

Destinations(route) == {route.destinations[n] : n \in 1..Len(route.destinations)}

\* the destination names exactly one of a chat and a user
ExactlyOneTarget(d) == (d.chat_id # <<>>) # (d.user_id # <<>>)

\* the targets sendToDestination can use: a MAX destination names exactly one
\* of a chat and a user, a Telegram destination names a chat
OneUsableTarget(d) ==
  \/ d.network = "max" /\ ExactlyOneTarget(d)
  \/ d.network = "telegram" /\ d.chat_id # <<>>

\* C14 as stated: every route of a loaded table has a non-empty destination
\* list and each destination names exactly one of a chat and a user.
C14_AsStated ==
  Loaded =>
    \A route \in LoadedRoutes :
       /\ route.destinations # <<>>
       /\ \A d \in Destinations(route) : ExactlyOneTarget(d)

\* C14: every route of a loaded table has a non-empty destination list; each
\* MAX destination names exactly one of a chat and a user and each Telegram
\* destination names a chat (a user named beside it is not looked at); a
\* document with an empty list or with another kind of destination does not load.
C14_DestinationsWellFormed ==
  /\ Loaded =>
       \A route \in LoadedRoutes :
          /\ route.destinations # <<>>
          /\ \A d \in Destinations(route) : OneUsableTarget(d)
  /\ (/\ loadPc = "done"
      /\ \E route \in DocRoutes :
            \/ route.destinations = <<>>
            \/ \E d \in Destinations(route) : ~OneUsableTarget(d)) => ~loadResult.ok

\* a table is loaded whose route has a MAX destination and a Telegram
\* destination that names a chat and a user
C14_Witness ==
  /\ Loaded
  /\ \E route \in LoadedRoutes :
       /\ Len(route.destinations) = 2
       /\ \E d \in Destinations(route) :
            d.network = "telegram" /\ d.chat_id # <<>> /\ d.user_id # <<>>

\* C15: in a loaded route table no two routes have the same id, ids defaulted
\* to index_<n> included, so the buffer key (route id, chat id, album id)
\* belongs to one route.
C15_RouteIdsUnique ==
  Loaded =>
    \A i, j \in 1..Len(loadResult.routes) :
       i # j => loadResult.routes[i].id # loadResult.routes[j].id

CascadeRuns == att.pc \in {"uploading", "done", "threw"}

\* C16: the cascade attempts the candidates in list order: attempt i is made on
\* candidate i, and only after the attempts on candidates 1..i-1 have failed;
\* an upload that succeeds is the last attempt, and its attachment alone is returned.
C16_InOrderShortCircuit ==
  CascadeRuns =>
    /\ att.candidates = mediaCandidatesOf(tgMessage)
    /\ Len(att.tried) <= Len(att.candidates)
    /\ \A i \in 1..Len(att.tried) :
         /\ att.tried[i].candidate = att.candidates[i]
         /\ i < Len(att.tried) => att.tried[i].outcome # "ok"
         /\ att.tried[i].outcome = "ok" =>
              /\ att.pc = "done"
              /\ att.result.attachments = <<att.candidates[i].fileId>>
    /\ (att.pc = "done" /\ att.result.attachments # <<>>) =>
         (att.tried # <<>> /\ att.tried[Len(att.tried)].outcome = "ok")

\* the second of at least three candidates was uploaded after the first failed
C16_Witness ==
  /\ att.pc = "done"
  /\ Len(att.candidates) >= 3
  /\ Len(att.tried) = 2
  /\ att.tried[1].outcome = "failed"
  /\ att.tried[2].outcome = "ok"
  /\ att.result.attachments = <<att.candidates[2].fileId>>

\* the outcomes of the attempts made
Outcomes == {att.tried[i].outcome : i \in 1..Len(att.tried)}

\* C17: when every candidate of a non-empty list has failed, the result has no
\* attachment and a warning: the too-large text exactly when some attempt
\* failed as too large, whatever its position, and the unavailable text
\* otherwise; when a candidate succeeds after failures, the warning is empty.
C17_WarningAfterFailures ==
  (att.pc = "done" /\ att.candidates # <<>>) =>
    /\ "ok" \notin Outcomes =>
         /\ Len(att.tried) = Len(att.candidates)
         /\ att.result.attachments = <<>>
         /\ att.result.warningText \in {WarningTooBig, WarningUnavailable}
         /\ att.result.warningText # ""
         /\ att.result.warningText = WarningTooBig <=> "too_big" \in Outcomes
    /\ "ok" \in Outcomes => att.result.warningText = ""

\* every candidate failed, the first of them as too large and the last not
C17_Witness ==
  /\ att.pc = "done"
  /\ Len(att.tried) >= 2
  /\ att.tried[1].outcome = "too_big"
  /\ att.tried[Len(att.tried)].outcome = "failed"
  /\ att.result.warningText = WarningTooBig

\* C18: no failure of an upload leaves the resolver; the result has at most one
\* attachment, one attachment comes with an empty warning, and an empty
\* candidate list gives no attachment and an empty warning.
C18_WellFormedResult ==
  /\ att.pc # "threw"
  /\ att.pc = "uploading" => "ok" \notin Outcomes
  /\ att.pc = "done" =>
       /\ Len(att.result.attachments) <= 1
       /\ Len(att.result.attachments) = 1 => att.result.warningText = ""
       /\ att.candidates = <<>> => att.result = NoAttachments
       /\ (att.candidates # <<>> /\ att.result.attachments = <<>>) =>
            att.result.warningText # ""

\* the call returned without candidates for a message whose only media has no
\* usable file_id
C18_Witness ==
  /\ att.pc = "done"
  /\ att.candidates = <<>>
  /\ tgMessage.own.photo = <<"bad">>
  /\ att.result = NoAttachments

KindRank(kind) ==
  CASE kind = "image" -> 1
    [] kind = "video" -> 2
    [] kind = "audio" -> 3
    [] kind = "file" -> 4

\* C19: the candidates of one message-like object are in the order of their
\* kinds, image before video before audio before file, with the images from the
\* largest size down, whatever media fields the object carries.
C19_KindPriorityOrder ==
  att.pc # "start" =>
    \A i, j \in 1..Len(att.candidates) :
      i < j =>
        /\ KindRank(att.candidates[i].kind) <= KindRank(att.candidates[j].kind)
        /\ (att.candidates[i].kind = "image" /\ att.candidates[j].kind = "image") =>
             att.candidates[i].fileId[3] > att.candidates[j].fileId[3]

OriginRank(origin) ==
  CASE origin = "message" -> 1
    [] origin = "reply_to_message" -> 2
    [] origin = "external_reply" -> 3

\* the message-like objects a message carries, by origin
Present(message) ==
  {"message"}
    \cup (IF message.reply_to_message # <<>> THEN {"reply_to_message"} ELSE {})
    \cup (IF message.external_reply # <<>> THEN {"external_reply"} ELSE {})

\* C20: in the candidate list the files of the message itself come before the
\* files of its reply_to_message, and these before the files of its
\* external_reply, whichever of the reply and the external reply are present.
C20_OwnThenReplyThenExternal ==
  att.pc # "start" =>
    /\ \A i, j \in 1..Len(att.candidates) :
         i < j => OriginRank(att.candidates[i].fileId[1]) <= OriginRank(att.candidates[j].fileId[1])
    /\ \A i \in 1..Len(att.candidates) : att.candidates[i].fileId[1] \in Present(tgMessage)
    /\ Len(att.candidates) =
         Len(buildMediaCandidates(<<tgMessage.own>>, "message"))
           + Len(buildMediaCandidates(tgMessage.reply_to_message, "message"))
           + Len(buildMediaCandidates(tgMessage.external_reply, "message"))

\* a message without reply_to_message whose own file and whose external
\* reply's files are all candidates
C20_Witness ==
  /\ att.pc # "start"
  /\ tgMessage.reply_to_message = <<>>
  /\ tgMessage.external_reply # <<>>
  /\ Len(att.candidates) >= 3
  /\ att.candidates[1].fileId[1] = "message"
  /\ att.candidates[Len(att.candidates)].fileId[1] = "external_reply"

\* C26: two log lines for the same ignored chat are at least one cool-down
\* apart: the map holds the time of the last line of each chat, a line is
\* written exactly when the entry of its chat changes, and an entry only moves
\* forward by a cool-down or more.
C26_OneLogPerCooldown ==
  [][/\ DOMAIN droppedSourceLogs \subseteq DOMAIN droppedSourceLogs'
     /\ \A k \in DOMAIN droppedSourceLogs :
          droppedSourceLogs'[k] # droppedSourceLogs[k] =>
             /\ droppedSourceLogs'[k] = DateNow(now)
             /\ droppedSourceLogs'[k] - droppedSourceLogs[k] >= DroppedLogCooldownMs
     /\ \A k \in DOMAIN droppedSourceLogs' \ DOMAIN droppedSourceLogs :
          droppedSourceLogs'[k] = DateNow(now)]_vars

\* two events were ignored with a log line each, the second one cool-down
\* after the start
C26_Witness ==
  /\ nEvents = 2
  /\ nPushed = 0
  /\ mediaGroupBuffer = <<>>
  /\ 3 \in DOMAIN droppedSourceLogs
  /\ droppedSourceLogs[3] >= DateNow(0) + DroppedLogCooldownMs

\* the keys whose entry took a collect call in the step
Collected == {k \in DOMAIN arrivals' : k \notin DOMAIN arrivals \/ arrivals'[k] # arrivals[k]}

HeldItems == Range(queue) \cup Delivering

\* C27: an album event that matches N enabled routes is collected under N
\* keys, one per route, each entry holding the event and a timer of its own
\* route's window; an entry leaves the buffer only by its flush, which
\* enqueues one batch item for the route of the entry with every distinct event
\* that the entry collected.
C27_AlbumFanOut ==
  [][/\ (nEvents' # nEvents /\ Collected # {}) =>
          \E m \in TelegramMessages :
             LET routes == findTelegramRoutes(m)
             IN /\ m.media_group_id # 0
                /\ Collected = {BufferKey(routes[n], m) : n \in 1..Len(routes)}
                /\ Cardinality(Collected) = Len(routes)
                /\ \A n \in 1..Len(routes) :
                     LET e == mediaGroupBuffer'[BufferKey(routes[n], m)]
                     IN /\ e.route = routes[n]
                        /\ m \in Range(e.messages)
                        /\ e.timer = <<now + getRouteMediaGroupCollectMs(routes[n])>>
                /\ \A k \in DOMAIN mediaGroupBuffer \ Collected :
                     /\ k \in DOMAIN mediaGroupBuffer'
                     /\ mediaGroupBuffer'[k] = mediaGroupBuffer[k]
                /\ HeldItems' = HeldItems
     /\ \A k \in DOMAIN mediaGroupBuffer :
          k \notin DOMAIN mediaGroupBuffer' =>
             /\ nPushed' = nPushed + 1
             /\ DOMAIN mediaGroupBuffer' = DOMAIN mediaGroupBuffer \ {k}
             /\ \E x \in HeldItems' :
                  /\ x.id = nPushed'
                  /\ x.kind = "telegram_group"
                  /\ x.route = mediaGroupBuffer[k].route
                  /\ Range(x.payload) = Range(mediaGroupBuffer[k].messages)
                  /\ Range(MessageIds(x.payload)) = Range(arrivals[k].ids)]_vars

\* the two parts of an album of chat 1 have ended in one batch item for each of
\* its two enabled routes, each holding both parts
C27_Witness ==
  /\ nEvents = 2
  /\ nPushed = 2
  /\ mediaGroupBuffer = <<>>
  /\ \E x, y \in HeldItems :
       /\ x.route = 1
       /\ y.route = 2
       /\ x.kind = "telegram_group"
       /\ y.kind = "telegram_group"
       /\ MessageIds(x.payload) = <<1, 2>>
       /\ x.payload = y.payload

\* C28: the flush removes the entry of its key and enqueues the sorted
\* messages the entry held at that moment; an item, once enqueued, never
\* changes; an album event whose key has no open entry starts an entry that
\* holds this event alone and leaves the items alone.
C28_PayloadFixedAtExpiry ==
  [][/\ \A x \in HeldItems : \A y \in HeldItems' : x.id = y.id => x = y
     /\ lastFlush' # lastFlush =>
          LET k == lastFlush'.key
          IN /\ k \in DOMAIN mediaGroupBuffer
             /\ k \notin DOMAIN mediaGroupBuffer'
             /\ \E x \in HeldItems' :
                  /\ x.id = nPushed + 1
                  /\ x.payload = SortByMessageId(mediaGroupBuffer[k].messages)
     /\ \A k \in DOMAIN mediaGroupBuffer' \ DOMAIN mediaGroupBuffer :
          /\ Len(mediaGroupBuffer'[k].messages) = 1
          /\ arrivals'[k].ids = MessageIds(mediaGroupBuffer'[k].messages)
          /\ HeldItems' = HeldItems]_vars

\* a part of an album arrived after the window of an earlier part had
\* expired: the first item holds the first part alone and a second item of the
\* same route, chat and album holds the second part alone
C28_Witness ==
  \E x, y \in HeldItems :
     /\ x.id < y.id
     /\ x.route = y.route
     /\ x.kind = "telegram_group"
     /\ y.kind = "telegram_group"
     /\ MessageIds(x.payload) = <<1>>
     /\ MessageIds(y.payload) = <<2>>
     /\ x.payload[1].chat = y.payload[1].chat
     /\ x.payload[1].media_group_id = y.payload[1].media_group_id

\* the number of markup characters among the first i characters of a text
Escapes(text, i) == Cardinality({j \in 1..i : text[j] \in MarkupChars})

\* C21: an empty body gives an empty result; with no span the result is the
\* body in which every markup character has a backslash in front of it and
\* every other character stands as it is.
C21_EscapedBody ==
  rnd.pc = "done" =>
    /\ rnd.text = <<>> => rnd.markdown = <<>>
    /\ rnd.entities = <<>> =>
         /\ Len(rnd.markdown) = Len(rnd.text) + Escapes(rnd.text, Len(rnd.text))
         /\ \A i \in 1..Len(rnd.text) :
              /\ rnd.markdown[i + Escapes(rnd.text, i)] = rnd.text[i]
              /\ rnd.text[i] \in MarkupChars =>
                   rnd.markdown[i + Escapes(rnd.text, i) - 1] = "\\"

\* a body with an asterisk between two letters was formatted without spans
C21_Witness ==
  /\ rnd.pc = "done"
  /\ rnd.entities = <<>>
  /\ rnd.text = <<"a", "*", "a">>
  /\ rnd.markdown = <<"a", "\\", "*", "a">>

\* the range of a span, offsets counted from 0
RangeOf(e) == e.offset..(e.offset + e.length - 1)

\* the ranges of a and b overlap and neither holds the other
Crossing(a, b) ==
  /\ RangeOf(a) \cap RangeOf(b) # {}
  /\ ~(RangeOf(a) \subseteq RangeOf(b))
  /\ ~(RangeOf(b) \subseteq RangeOf(a))

WellFormedSpan(e, textLength) ==
  e.length > 0 /\ e.offset >= 0 /\ e.offset + e.length <= textLength

AsSpan(node) == [type |-> node.type, offset |-> node.offset, length |-> node.length]

Retained(tree) == {i \in 1..Len(tree) : tree[i].parent >= 0}

Occurrences(seq, x) == Cardinality({i \in 1..Len(seq) : seq[i] = x})

\* C22: the list the tree is built on holds the well-formed spans of the input
\* and no other, by ascending start and then descending length; a span of it
\* is a node of the tree exactly when it crosses no span before it that is a
\* node; when no two well-formed spans cross, all of them are nodes.
C22_TreeHoldsNonCrossingSpans ==
  rnd.pc = "built" =>
    LET tree == rnd.tree
        textLength == Len(rnd.text)
        spans == [i \in 1..Len(tree) |-> AsSpan(tree[i])]
    IN /\ \A e \in TreeSpans :
            Occurrences(spans, e) =
              IF WellFormedSpan(e, textLength) THEN Occurrences(rnd.entities, e) ELSE 0
       /\ \A i, j \in 1..Len(tree) :
            i < j => \/ tree[i].offset < tree[j].offset
                     \/ /\ tree[i].offset = tree[j].offset
                        /\ tree[i].length >= tree[j].length
       /\ \A i \in 1..Len(tree) :
            i \in Retained(tree) <=>
              ~\E j \in Retained(tree) : j < i /\ Crossing(spans[j], spans[i])
       /\ (\A i, j \in 1..Len(tree) : ~Crossing(spans[i], spans[j])) =>
            Retained(tree) = 1..Len(tree)

\* three well-formed spans were given out of order: the one that crosses the
\* first node was dropped and the one nested in it was kept
C22_Witness ==
  /\ rnd.pc = "built"
  /\ rnd.entities = <<[type |-> "bold", offset |-> 1, length |-> 2],
                      [type |-> "bold", offset |-> 0, length |-> 2],
                      [type |-> "bold", offset |-> 1, length |-> 1]>>
  /\ Len(rnd.tree) = 3
  /\ Retained(rnd.tree) = {1, 3}
  /\ rnd.tree[3].parent = 1

TextOf(n) == Slice(rnd.text, rnd.tree[n].offset, rnd.tree[n].end)

\* seq holds piece as a run of consecutive characters
Contains(seq, piece) ==
  \E k \in 0..(Len(seq) - Len(piece)) : SubSeq(seq, k + 1, k + Len(piece)) = piece

WrapperChars(tree) ==
  2 * Cardinality({i \in Retained(tree) : tree[i].type \in {"bold", "underline", "strikethrough"}})
    + Cardinality({i \in Retained(tree) : tree[i].type = "italic"})

\* C23: when node B is the only child of node A and has no child itself, the
\* result holds A's wrapper around: the escaped text of A before B, B's
\* wrapper around the escaped text of B, the escaped text of A after B; and
\* the result is the escaped body plus one pair of wrappers for every node,
\* so no text is written twice.
C23_NestedSpansRenderNested ==
  (rnd.pc = "done" /\ rnd.text # <<>> /\ rnd.entities # <<>>) =>
    LET tree == rnd.tree
    IN /\ \A a, b \in Retained(tree) :
            (ChildrenOf(tree, a) = <<b>> /\ ChildrenOf(tree, b) = <<>>) =>
               Contains(rnd.markdown,
                        WrapperOf(tree[a].type)
                          \o escapeMarkdownText(Slice(rnd.text, tree[a].offset, tree[b].offset))
                          \o WrapperOf(tree[b].type)
                          \o escapeMarkdownText(TextOf(b))
                          \o WrapperOf(tree[b].type)
                          \o escapeMarkdownText(Slice(rnd.text, tree[b].end, tree[a].end))
                          \o WrapperOf(tree[a].type))
       /\ Len(rnd.markdown) =
            Len(rnd.text) + Escapes(rnd.text, Len(rnd.text)) + 2 * WrapperChars(tree)

\* a bold asterisk inside an italic text of three characters
C23_Witness ==
  /\ rnd.pc = "done"
  /\ rnd.text = <<"a", "*", "a">>
  /\ rnd.entities = <<[type |-> "bold", offset |-> 1, length |-> 1],
                      [type |-> "italic", offset |-> 0, length |-> 3]>>
  /\ rnd.markdown = <<"_", "a", "*", "*", "\\", "*", "*", "*", "a", "_">>

\* C29: in the tree of any span list the range of a node lies in the range
\* of its parent, the parent of a node is a node before it, two nodes with the
\* same parent have disjoint ranges with the earlier one starting first, and
\* no discarded span is a parent.
C29_TreeWellFormed ==
  rnd.pc = "built" =>
    LET tree == rnd.tree
        textLength == Len(rnd.text)
    IN /\ \A i \in 1..Len(tree) : tree[i].parent \in {-1} \cup (0..(i - 1))
       /\ \A i \in Retained(tree) :
            LET p == tree[i].parent
            IN IF p = 0 THEN RangeOf(tree[i]) \subseteq 0..(textLength - 1)
               ELSE /\ p \in Retained(tree)
                    /\ RangeOf(tree[i]) \subseteq RangeOf(tree[p])
       /\ \A i, j \in Retained(tree) :
            (i < j /\ tree[i].parent = tree[j].parent) =>
               /\ RangeOf(tree[i]) \cap RangeOf(tree[j]) = {}
               /\ tree[i].offset < tree[j].offset

\* a span crosses the first node and is discarded; the span after it, which
\* lies inside the discarded one, is a child of the root beside the first node
C29_Witness ==
  /\ rnd.pc = "built"
  /\ rnd.entities = <<[type |-> "bold", offset |-> 0, length |-> 2],
                      [type |-> "bold", offset |-> 1, length |-> 2],
                      [type |-> "bold", offset |-> 2, length |-> 1]>>
  /\ Retained(rnd.tree) = {1, 3}
  /\ rnd.tree[1].parent = 0
  /\ rnd.tree[3].parent = 0

\* the forward function has made its prepared payload and is in or past the sends
Forwarding == fwd.pc \in {"sending", "returned", "threw"}

\* the forward function has come to its end, by a return or by an error
ForwardEnded == fwd.pc \in {"returned", "threw"}

\* call n was made to destination n of the route
CallMatches(n) ==
  LET destination == fwd.route.destinations[n]
      call == fwd.calls[n]
  IN IF destination.network = "max"
     THEN /\ call.api \in {"sendMessageToChat", "sendMessageToUser"}
          /\ call.target \in {destination.chat_id, destination.user_id} \ {<<>>}
     ELSE /\ call.api = "telegram.sendMessage"
          /\ call.target = destination.chat_id

\* the calls made so far went to the first destinations, one each, in configured order
CallsInConfiguredOrder ==
  /\ Len(fwd.calls) <= Len(fwd.route.destinations)
  /\ \A n \in 1..Len(fwd.calls) : CallMatches(n)

\* C25 as the specification states it: every destination of the route is called
\* once, in configured order, also after the send to an earlier one failed
C25_AsStated ==
  ForwardEnded => /\ Len(fwd.calls) = Len(fwd.route.destinations)
                  /\ CallsInConfiguredOrder

\* C25: the destinations of the route are called in configured order, each at
\* most once; when every send returns each destination was called exactly
\* once, and a send that throws is the last call of the item: the destinations
\* after it are not called
C25_SendsInOrderUntilFailure ==
  Forwarding =>
    /\ CallsInConfiguredOrder
    /\ \A n \in 1..Len(fwd.calls) : fwd.calls[n].outcome = "threw" => n = Len(fwd.calls)
    /\ fwd.pc = "returned" => /\ Len(fwd.calls) = Len(fwd.route.destinations)
                              /\ \A n \in 1..Len(fwd.calls) : fwd.calls[n].outcome = "ok"
    /\ fwd.pc = "threw" => /\ fwd.calls # <<>>
                           /\ fwd.calls[Len(fwd.calls)].outcome = "threw"
    /\ fwd.pc = "sending" => Len(fwd.calls) < Len(fwd.route.destinations)

\* C25 witness: the send to the first of two destinations threw and the second
\* destination was not called
C25_Witness ==
  /\ fwd.pc = "threw"
  /\ Len(fwd.route.destinations) = 2
  /\ Len(fwd.calls) = 1
  /\ fwd.calls[1].outcome = "threw"

\* the album messages that gave an attachment
Uploaded == {m \in Range(fwd.messages) : m.upload = "ok"}

\* the attachments are those of the album messages, one for each message that
\* gave one, in ascending message_id order
AlbumAttachments(attachments) ==
  /\ Len(attachments) = Cardinality(Uploaded)
  /\ Range(attachments) = {AttachmentOf(m) : m \in Uploaded}
  /\ \A i, j \in 1..Len(attachments) : i < j => attachments[i][2] < attachments[j][2]

\* the message the text of an album is taken from
AlbumTextSource ==
  LET withText == {m \in Range(fwd.messages) : m.text # <<>>}
      from == IF withText # {} THEN withText ELSE Range(fwd.messages)
  IN CHOOSE m \in from : \A other \in from : m.message_id <= other.message_id

\* the text starts with the piece
StartsWith(text, piece) ==
  /\ Len(piece) <= Len(text)
  /\ SubSeq(text, 1, Len(piece)) = piece

\* the text of an album item comes from the lowest message that has text
AlbumTextFromSource ==
  /\ StartsWith(fwd.text, escapeMarkdownText(AlbumTextSource.text))
  /\ AlbumTextSource.text = <<>> => ~Contains(fwd.text, <<"*">>)

\* C24 as the specification states it: an album item gives exactly one send
\* call to each destination and every call carries the attachments of all the
\* album messages
C24_AsStated ==
  (fwd.kind = "telegram_group" /\ ForwardEnded) =>
    /\ Len(fwd.calls) = Len(fwd.route.destinations)
    /\ \A n \in 1..Len(fwd.calls) : AlbumAttachments(fwd.calls[n].attachments)
    /\ AlbumTextFromSource

\* C24: an album item gives at most one send call to each destination, in
\* configured order, and exactly one when no send throws; a call to a MAX
\* destination carries the attachments of all the album messages, the zero or
\* one attachment of each in ascending message_id order, a call to a Telegram
\* destination carries none; the text is that of the lowest message_id message
\* that has text, or of the first message when none has
C24_AlbumSentAsOneMessage ==
  (fwd.kind = "telegram_group" /\ Forwarding) =>
    /\ CallsInConfiguredOrder
    /\ fwd.pc = "returned" => Len(fwd.calls) = Len(fwd.route.destinations)
    /\ \A n \in 1..Len(fwd.calls) :
         /\ fwd.route.destinations[n].network = "max" =>
              AlbumAttachments(fwd.calls[n].attachments)
         /\ fwd.route.destinations[n].network = "telegram" =>
              fwd.calls[n].attachments = <<>>
         /\ fwd.calls[n].text = IF fwd.text # <<>> THEN fwd.text ELSE <<" ">>
    /\ AlbumTextFromSource

\* C24 witness: an album of two messages that arrived as 2, 1, the first
\* without text, both with an attachment, was sent to two MAX destinations
C24_Witness ==
  /\ fwd.kind = "telegram_group"
  /\ fwd.pc = "returned"
  /\ Len(fwd.messages) = 2
  /\ fwd.messages[1].message_id = 2
  /\ fwd.messages[1].text # <<>>
  /\ fwd.messages[2].text = <<>>
  /\ Uploaded = Range(fwd.messages)
  /\ Len(fwd.calls) = 2
  /\ \A n \in 1..2 : /\ fwd.route.destinations[n].network = "max"
                     /\ fwd.calls[n].attachments = <<<<"attachment", 1>>, <<"attachment", 2>>>>
  /\ StartsWith(fwd.text, <<"\\", "*", "a", "a">>)

\* the distinct warnings of the messages of the item
ItemWarnings ==
  {WarningChars(buildAttachmentsFromTelegram(m).warningText) : m \in Range(fwd.messages)}
    \ {<<>>}

\* the message whose text and footer the item carries
TextSource == IF fwd.kind = "telegram_group" THEN AlbumTextSource ELSE fwd.messages[1]

\* the rendered message text of the item with the separator after each piece
RenderedBefore ==
  LET own == escapeMarkdownText(TextSource.text)
      repost == escapeMarkdownText(TextSource.repost)
  IN (IF own # <<>> THEN own \o <<"\n", "\n">> ELSE <<>>)
       \o (IF repost # <<>> THEN repost \o <<"\n", "\n">> ELSE <<>>)

\* the footer of the item with the separator before it
FooterAfter ==
  IF fwd.route.include_telegram_footer /\ TextSource.linked
  THEN <<"\n", "\n">> \o FooterText
  ELSE <<>>

\* the text is the rendered message text, the line and the footer
TextWithLine(line) == fwd.text = RenderedBefore \o line \o FooterAfter

\* the text is the rendered message text and the footer alone
TextWithoutLine ==
  LET rendered == RenderedBefore
      footer == FooterAfter
  IN IF footer # <<>> /\ rendered # <<>>
     THEN fwd.text = SubSeq(rendered, 1, Len(rendered) - 2) \o footer
     ELSE IF footer # <<>>
     THEN fwd.text = FooterText
     ELSE IF rendered # <<>>
     THEN fwd.text = SubSeq(rendered, 1, Len(rendered) - 2)
     ELSE fwd.text = <<>>

\* C30: a failed fetch or upload is a warning line and the item is still
\* sent: the text has the escaped warning after the rendered message text and
\* before the footer, and the sends are made with that text; an item without
\* a warning has no warning line
C30_WarningLineInText ==
  (fwd.kind \in {"telegram_single", "telegram_group"} /\ Forwarding) =>
    /\ ItemWarnings = {} => TextWithoutLine
    /\ ItemWarnings # {} =>
         \E line \in {escapeMarkdownText(w) : w \in ItemWarnings}
                       \cup {escapeMarkdownText(p[1] \o <<"\n">> \o p[2]) :
                               p \in {q \in ItemWarnings \X ItemWarnings : q[1] # q[2]}} :
           TextWithLine(line)
    /\ \A w \in ItemWarnings : Contains(fwd.text, escapeMarkdownText(w))
    /\ fwd.pc = "sending" => Len(fwd.calls) < Len(fwd.route.destinations)
    /\ fwd.pc = "returned" => Len(fwd.calls) = Len(fwd.route.destinations)
    /\ fwd.pc = "threw" => fwd.calls # <<>>
    /\ \A n \in 1..Len(fwd.calls) :
         fwd.calls[n].text = IF fwd.text # <<>> THEN fwd.text ELSE <<" ">>

\* C30 witness: a message with text whose file was too big was sent to every
\* destination with the text, the escaped warning and the footer
C30_Witness ==
  /\ fwd.kind = "telegram_single"
  /\ fwd.pc = "returned"
  /\ fwd.messages[1].upload = "too_big"
  /\ fwd.attachments = <<>>
  /\ fwd.text = <<"\\", "*", "a", "\n", "\n", "b", "\\", ".", "\n", "\n">> \o FooterText
  /\ Len(fwd.calls) = Len(fwd.route.destinations)
  /\ \A n \in 1..Len(fwd.calls) : fwd.calls[n].text = fwd.text

\* the identity sendToDestination hands to the send capability
SendTarget(d) ==
  IF sendBranch(d) = "sendMessageToUser" THEN d.user_id ELSE d.chat_id

\* C31: for every loaded route table the error 'Unsupported destination
\* network' of sendToDestination cannot happen: every destination of every
\* loaded route is a MAX destination with a numeric chat_id or user_id or a
\* Telegram destination with a numeric chat_id, so the send is made to a number
C31_NoUnsupportedDestinationAtRuntime ==
  Loaded =>
    \A route \in LoadedRoutes :
      \A n \in 1..Len(route.destinations) :
        LET d == route.destinations[n]
        IN /\ sendBranch(d) # "Unsupported destination network"
           /\ d.network \in {"max", "telegram"}
           /\ SendTarget(d) # <<>>

\* C31 witness: a table is loaded whose routes send to a MAX user and to a
\* Telegram chat
C31_Witness ==
  /\ Loaded
  /\ \E route \in LoadedRoutes :
       \E n \in 1..Len(route.destinations) :
         sendBranch(route.destinations[n]) = "sendMessageToUser"
  /\ \E route \in LoadedRoutes :
       \E n \in 1..Len(route.destinations) :
         sendBranch(route.destinations[n]) = "telegram.sendMessage"

\* the pending window timers of the key
TimersOf(k) == {n \in 1..Len(timers) : timers[n].key = k}

\* C32: every entry of the batch buffer holds at least one event and no two
\* events with the same message_id and has exactly one pending window timer,
\* the one the entry names; no pending window timer belongs to a key that
\* is not in the buffer; and the batch of the latest expiry is not empty
C32_BatchBufferInvariant ==
  /\ \A k \in DOMAIN mediaGroupBuffer :
       LET e == mediaGroupBuffer[k]
       IN /\ e.messages # <<>>
          /\ \A i, j \in 1..Len(e.messages) :
               e.messages[i].message_id = e.messages[j].message_id => i = j
          /\ Cardinality(TimersOf(k)) = 1
          /\ \A n \in TimersOf(k) : <<timers[n].at>> = e.timer
  /\ \A n \in 1..Len(timers) : timers[n].key \in DOMAIN mediaGroupBuffer
  /\ \A x \in lastFlush.items : x.kind = "telegram_group" /\ x.payload # <<>>
  /\ \A n \in 1..Len(queue) : queue[n].payload # <<>>

\* C32 witness: two entries are open, each with its own pending timer, and
\* the timer of one of them was set again by a second event
C32_Witness ==
  /\ Cardinality(DOMAIN mediaGroupBuffer) = 2
  /\ Len(timers) = 2
  /\ \E k \in DOMAIN mediaGroupBuffer :
       /\ Len(arrivals[k].ids) = 2
       /\ Len(mediaGroupBuffer[k].messages) = 2

\* C36: a Telegram source with a handle that route validation accepts (not
\* blank after trimming, the single sigil "@" included) never matches a
\* message whose chat has no username
C36_HandleNeverMatchesChatWithoutUsername ==
  (/\ matchPc = "done"
   /\ src.network = "telegram"
   /\ sourceOk(src)
   /\ Trim(src.chat_username) # <<>>
   /\ msg.chat.username = <<>>) => ~matchResult

\* the album parts of the chats some enabled route names
RoutedAlbumParts ==
  {m \in TelegramMessages : m.media_group_id # 0 /\ findTelegramRoutes(m) # <<>>}

\* the messages outside albums
MessagesOutsideAlbums == {m \in TelegramMessages : m.media_group_id = 0}

\* C34: an event with a media_group_id only updates the batch buffer: the
\* handler leaves the queue and the worker as they are, no telegram_single
\* item ever holds an album part and an album item is created only by the
\* expiry of a batch window; an event without media_group_id leaves the
\* batch buffer and its timers as they are
C34_AlbumPartsOnlyBuffered ==
  /\ [][\/ nEvents' = nEvents
        \/ /\ arrivals' # arrivals
           /\ queue' = queue
           /\ nPushed' = nPushed
           /\ loops' = loops
           /\ queueBusy' = queueBusy
           /\ \A m \in MessagesOutsideAlbums : ~onTelegramMessage(m)
        \/ /\ arrivals' = arrivals
           /\ mediaGroupBuffer' = mediaGroupBuffer
           /\ timers' = timers
           /\ \A m \in RoutedAlbumParts : ~onTelegramMessage(m)]_vars
  /\ [][\A x \in NewItems :
          x.kind = "telegram_group" => lastFlush' # lastFlush /\ x \in lastFlush'.items]_vars
  /\ [](/\ \A x \in Range(queue) \cup Delivering :
             /\ x.kind = "telegram_single" =>
                  \A m \in Range(x.payload) : m.media_group_id = 0
             /\ x.kind = "telegram_group" =>
                  \A m \in Range(x.payload) : m.media_group_id # 0
        /\ \A k \in DOMAIN mediaGroupBuffer :
             \A m \in Range(mediaGroupBuffer[k].messages) : m.media_group_id # 0)

\* C34 witness: of two events, the album part is held by the buffer and the
\* message outside an album is the only item made
C34_Witness ==
  /\ nEvents = 2
  /\ nPushed = 1
  /\ DOMAIN mediaGroupBuffer # {}
  /\ \E x \in Range(queue) \cup Delivering : x.kind = "telegram_single"

\* an item that holds one event
IsSingle(x) == x.kind \in {"telegram_single", "max_single"}

\* x was enqueued before y, both hold one event and their routes have the
\* same effective delay
EnqueuedBefore(x, y) ==
  /\ IsSingle(x)
  /\ IsSingle(y)
  /\ getRouteDelayMs(x.route) = getRouteDelayMs(y.route)
  /\ x.id < y.id

\* C35: single events of routes with the same effective delay are handed to
\* the Delivery Executor in the order they were enqueued, equal runAt
\* included: no item is handed over while an item enqueued before it waits
C35_FifoForEqualDelay ==
  /\ \A y \in Delivering : \A n \in 1..Len(queue) : ~EnqueuedBefore(queue[n], y)
  /\ \A i \in Sleeping : \A n \in 1..Len(queue) : ~EnqueuedBefore(queue[n], loops[i].next)

\* C35 witness: of two single items with the same runAt the first is with
\* the Delivery Executor and the second waits
C35_Witness ==
  \E x \in Delivering :
    \E n \in 1..Len(queue) :
      /\ EnqueuedBefore(x, queue[n])
      /\ x.runAt = queue[n].runAt
      /\ x.route # queue[n].route

\* the events onMaxMessage must not relay: the sender is the bridge itself,
\* or the message or the chat id is missing
SuppressedContexts ==
  {c \in MaxContexts : c.sender = MaxBotUserId \/ ~c.hasMessage \/ c.chatId = 0}

\* a message the bridge posted itself into the MAX chat that route "back" reads
OwnMessageInSourceChat ==
  [chatId |-> 7, hasMessage |-> TRUE, sender |-> MaxBotUserId, mid |-> 1]

\* C37: a message_created event whose sender is the bridge's own MAX user id,
\* or whose message or chat id is missing, makes no item: no step of the
\* handler for such an event changes the queue, the worker or the buffer, and
\* the bridge's own user id is known
C37_OwnMaxMessagesNotRelayed ==
  /\ [][\/ /\ queue' = queue
            /\ nPushed' = nPushed
            /\ loops' = loops
            /\ queueBusy' = queueBusy
            /\ mediaGroupBuffer' = mediaGroupBuffer
         \/ \A c \in SuppressedContexts : ~onMaxMessage(c)]_vars
  /\ [](MaxBotUserId # 0 /\ findMaxRoutes(OwnMessageInSourceChat.chatId) # <<>>)

\* C37 witness: a message of another user in the routed MAX chat has made an
\* item, and the handler can run for a message of the bridge itself in that chat
C37_Witness ==
  /\ nPushed = 1
  /\ \E x \in Range(queue) \cup Delivering :
       x.kind = "max_single" /\ x.payload[1].chatId = OwnMessageInSourceChat.chatId
  /\ ENABLED onMaxMessage(OwnMessageInSourceChat)

\* C38: the label of every media candidate names the object the candidate
\* was taken from: 'message', 'reply_to_message' or 'external_reply', whichever
\* of reply_to_message and external_reply the message carries
C38_LabelNamesOrigin ==
  att.pc # "start" =>
    \A i \in 1..Len(att.candidates) : att.candidates[i].label = att.candidates[i].fileId[1]

\* the text a reader of the markup sees: a backslash gives the character
\* after it, an asterisk or an underscore without one belongs to a wrapper
RECURSIVE PlainText(_)
PlainText(markdown) ==
  IF markdown = <<>> THEN <<>>
  ELSE IF Head(markdown) = "\\" /\ Len(markdown) >= 2
  THEN <<markdown[2]>> \o PlainText(SubSeq(markdown, 3, Len(markdown)))
  ELSE IF Head(markdown) \in {"*", "_"}
  THEN PlainText(Tail(markdown))
  ELSE <<Head(markdown)>> \o PlainText(Tail(markdown))

StreamHolds(k, m) ==
  /\ k \in DOMAIN stream.buffer
  /\ \E n \in 1..Len(stream.buffer[k].messages) : stream.buffer[k].messages[n].message_id = m

\* the window of key k has expired and the batch enqueued for it holds part m
StreamEnqueued(k, m) ==
  /\ k \notin DOMAIN stream.buffer
  /\ k \in DOMAIN stream.batches
  /\ \E n \in 1..Len(stream.batches[k]) : stream.batches[k][n].message_id = m

\* C33 as the specification states it: every event appended to an entry is
\* eventually in an enqueued batch, whatever events follow for the same key
C33_AsStated ==
  \A k \in StreamKeys : \A m \in StreamIds : StreamHolds(k, m) ~> StreamEnqueued(k, m)

\* C33: every further event for a key, a duplicate included, starts the
\* window anew; once the events for the key have stopped, every event the
\* entry holds is in the batch that is enqueued when the window expires, and
\* a window never has more time left than the batch window of its route
C33_FlushedOnceStreamStops ==
  /\ \A k \in StreamKeys : \A m \in StreamIds :
       (StreamHolds(k, m) /\ stream.pc = "ended") ~> StreamEnqueued(k, m)
  /\ [](\A k \in DOMAIN stream.buffer :
          /\ stream.buffer[k].timer[1] >= 0
          /\ stream.buffer[k].timer[1] <= getRouteMediaGroupCollectMs(stream.buffer[k].route))

\* C33 witness: the stream has stopped, the window of a key that held two
\* parts has expired and its batch holds both
C33_Witness ==
  /\ stream.pc = "ended"
  /\ stream.buffer = <<>>
  /\ \E k \in DOMAIN stream.batches : Len(stream.batches[k]) = 2

====
